---- MODULE Spec2Model ----
\* Model of the deep-research worker (src/src/worker.js): the synchronous
\* plan/search/extract/synthesize/validate loop of deepResearchAgent, and the
\* background-job polling of runDeepResearchModel and handleResumeResponse
\* against a remote provider that owns the job.
EXTENDS Integers, Sequences, FiniteSets, TLC

VARIABLES
    kind,               \* which request is being served: "research", "deep", "resume"
    pc,                 \* position of the request handler
    cfg,                \* effective configuration built by fetch
    plan,               \* planner output
    round,              \* loop variable of the research loop
    allFacts,           \* accumulated evidence
    seenUrls,           \* distinct source URLs observed
    noNewRounds,        \* stagnation counter
    trace,              \* append-only event log of the current call
    draft,              \* synthesizer output
    response,           \* what the caller receives
    job,                \* the background job as the provider holds it
    result,             \* the job object of the last successful status fetch
    consecutiveErrors,  \* consecutive failed polls of the current poll loop
    elapsed,            \* Date.now() - startPoll, in seconds
    fetches,            \* status fetches issued by the current call
    lastPoll,           \* what the provider answered to the latest status fetch
    calls,              \* summaries of the calls that returned earlier
    retry,              \* one invocation of retryWithBackoff: its options and locals
    call,               \* one application of a helper function: its arguments and its value
    reqs,               \* the locals of each of the requests served side by side
    feed                \* what the provider answered to each of those requests, in order

researchVars == <<plan, round, allFacts, seenUrls, noNewRounds, draft>>

jobVars == <<job, result, consecutiveErrors, elapsed, fetches, lastPoll, calls>>

sideVars == <<call, reqs, feed>>

vars == <<kind, pc, cfg, trace, response, researchVars, jobVars, retry, sideVars>>

----------------------------------------------------------------------------
\* Bounds of the exploration

\* largest maxSearchRounds option explored (the program accepts up to 10)
MaxRounds == 5

\* the wait window of a poll loop in seconds (the program waits 30 minutes)
MaxWait == 25

\* calls served one after the other for the same job
MaxCalls == 2

\* status fetches explored over all calls for the same job
MaxFetches == 7

\* largest maxRetries option explored (the program accepts up to 5)
MaxRetries == 3

----------------------------------------------------------------------------
\* Strings are sequences of one-character strings.

UpperChars ==
    <<"A", "B", "C", "D", "E", "F", "G", "H", "I", "J", "K", "L", "M",
      "N", "O", "P", "Q", "R", "S", "T", "U", "V", "W", "X", "Y", "Z">>

LowerChars ==
    <<"a", "b", "c", "d", "e", "f", "g", "h", "i", "j", "k", "l", "m",
      "n", "o", "p", "q", "r", "s", "t", "u", "v", "w", "x", "y", "z">>

WhiteSpace == {" ", "\t", "\n", "\r"}

UpperSet == {UpperChars[i] : i \in 1..Len(UpperChars)}

LowerOf == [c \in UpperSet |-> LowerChars[CHOOSE i \in 1..Len(UpperChars) : UpperChars[i] = c]]

ToLowerChar(c) == IF c \in UpperSet THEN LowerOf[c] ELSE c

\* String.prototype.toLowerCase
ToLowerCase(s) == [i \in 1..Len(s) |-> ToLowerChar(s[i])]

RECURSIVE TrimStart(_)
TrimStart(s) ==
    IF s = <<>> THEN <<>>
    ELSE IF Head(s) \in WhiteSpace THEN TrimStart(Tail(s)) ELSE s

RECURSIVE TrimEnd(_)
TrimEnd(s) ==
    IF s = <<>> THEN <<>>
    ELSE IF s[Len(s)] \in WhiteSpace THEN TrimEnd(SubSeq(s, 1, Len(s) - 1)) ELSE s

\* String.prototype.trim
Trim(s) == TrimEnd(TrimStart(s))

\* String.prototype.includes
\* x occurs in s at offset i (0-based)
OccursAt(s, x, i) == \A k \in 1..Len(x) : s[i + k] = x[k]

Includes(s, x) == \E i \in 0..(Len(s) - Len(x)) : OccursAt(s, x, i)

\* String.prototype.endsWith
EndsWith(s, x) ==
    /\ Len(s) >= Len(x)
    /\ OccursAt(s, x, Len(s) - Len(x))

\* Array.prototype.some over a table of signals
SomeIncluded(signals, u) == \E i \in 1..Len(signals) : Includes(u, signals[i])

Max(a, b) == IF a >= b THEN a ELSE b

Min(a, b) == IF a <= b THEN a ELSE b

----------------------------------------------------------------------------
\* Evidence model

DotGov == <<".", "g", "o", "v">>

DotGovSlash == <<".", "g", "o", "v", "/">>

DotEdu == <<".", "e", "d", "u">>

DotEduSlash == <<".", "e", "d", "u", "/">>

docSignals ==
    << <<"s", "t", "a", "n", "d", "a", "r", "d", "s">>,
       <<"i", "e", "t", "f", ".", "o", "r", "g">>,
       <<"i", "s", "o", ".", "o", "r", "g">>,
       <<"w", "3", ".", "o", "r", "g">>,
       <<"d", "o", "c", "s", ".">>,
       <<"d", "e", "v", "e", "l", "o", "p", "e", "r", ".">>,
       <<"a", "p", "i", "-", "r", "e", "f", "e", "r", "e", "n", "c", "e">> >>

researchSignals ==
    << <<"a", "c", "m", ".", "o", "r", "g">>,
       <<"i", "e", "e", "e", ".", "o", "r", "g">>,
       <<"n", "a", "t", "u", "r", "e", ".", "c", "o", "m">>,
       <<"s", "c", "i", "e", "n", "c", "e", ".", "o", "r", "g">>,
       <<"a", "r", "x", "i", "v", ".", "o", "r", "g">> >>

okSignals ==
    << <<"w", "i", "k", "i", "p", "e", "d", "i", "a", ".", "o", "r", "g">>,
       <<"b", "r", "i", "t", "a", "n", "n", "i", "c", "a", ".", "c", "o", "m">> >>

lowSignals ==
    << <<"m", "e", "d", "i", "u", "m", ".", "c", "o", "m">>,
       <<"s", "u", "b", "s", "t", "a", "c", "k", ".", "c", "o", "m">>,
       <<"b", "l", "o", "g", "s", "p", "o", "t">>,
       <<"w", "o", "r", "d", "p", "r", "e", "s", "s">> >>

\* a social list that misses x.com
veryLow_withoutX ==
    << <<"t", "w", "i", "t", "t", "e", "r", ".", "c", "o", "m">>,
       <<"r", "e", "d", "d", "i", "t", ".", "c", "o", "m">>,
       <<"t", "i", "k", "t", "o", "k", ".", "c", "o", "m">> >>

veryLow ==
    << <<"x", ".", "c", "o", "m">>,
       <<"t", "w", "i", "t", "t", "e", "r", ".", "c", "o", "m">>,
       <<"r", "e", "d", "d", "i", "t", ".", "c", "o", "m">>,
       <<"t", "i", "k", "t", "o", "k", ".", "c", "o", "m">> >>

domainQualityScore(url) ==
    LET u == ToLowerCase(url) IN
    IF EndsWith(u, DotGov) \/ Includes(u, DotGovSlash) THEN 5
    ELSE IF EndsWith(u, DotEdu) \/ Includes(u, DotEduSlash) THEN 5
    ELSE IF SomeIncluded(docSignals, u) THEN 4
    ELSE IF SomeIncluded(researchSignals, u) THEN 4
    ELSE IF SomeIncluded(okSignals, u) THEN 3
    ELSE IF SomeIncluded(lowSignals, u) THEN 2
    ELSE IF SomeIncluded(veryLow, u) THEN 1
    ELSE 2

\* a key that tells apart texts differing in case or in surrounding blanks
FactKey_exact(f) == f.fact

\* the deduplication key of a fact
FactKey(f) == ToLowerCase(Trim(f.fact))

RECURSIVE dedupeFrom(_, _, _)
dedupeFrom(facts, seen, out) ==
    IF facts = <<>> THEN out
    ELSE LET f == Head(facts)
             key == FactKey(f)
         IN IF key = <<>> \/ key \in seen
            THEN dedupeFrom(Tail(facts), seen, out)
            ELSE dedupeFrom(Tail(facts), seen \cup {key}, Append(out, f))

\* a deduplication in which the last fact of a text supersedes the earlier ones
dedupeFacts_lastWins(facts) ==
    LET Rev(x) == [i \in 1..Len(x) |-> x[Len(x) + 1 - i]]
    IN Rev(dedupeFrom(Rev(facts), {}, <<>>))

dedupeFacts(facts) == dedupeFrom(facts, {}, <<>>)

normalizeUrl(url) == Trim(url)

\* String.prototype.indexOf (0-based, -1 when absent)
IndexOf(s, x) ==
    IF Includes(s, x)
    THEN CHOOSE i \in 0..(Len(s) - Len(x)) :
            /\ OccursAt(s, x, i)
            /\ \A j \in 0..(i - 1) : ~OccursAt(s, x, j)
    ELSE -1

\* the prefix of s before the first character that belongs to stops
RECURSIVE UpTo(_, _)
UpTo(s, stops) ==
    IF s = <<>> \/ Head(s) \in stops THEN <<>>
    ELSE <<Head(s)>> \o UpTo(Tail(s), stops)

\* the suffix of s after the last occurrence of the character c
RECURSIVE AfterLast(_, _)
AfterLast(s, c) ==
    IF \E i \in 1..Len(s) : s[i] = c
    THEN AfterLast(Tail(s), c)
    ELSE s

SchemeSep == <<":", "/", "/">>

\* new URL(url).hostname for URLs of the shape scheme://[user@]host[:port][/...];
\* any other input makes the constructor throw (ok = FALSE)
ParseUrl(url) ==
    LET t == Trim(url)
        i == IndexOf(t, SchemeSep)
        authority == UpTo(SubSeq(t, i + 4, Len(t)), {"/", "?", "#"})
        hostport == AfterLast(authority, "@")
        host == ToLowerCase(UpTo(hostport, {":"}))
    IN IF i <= 0 \/ host = <<>>
       THEN [ok |-> FALSE, hostname |-> <<>>]
       ELSE [ok |-> TRUE, hostname |-> host]

\* a match on the end of the host, wherever the label begins
DomainMatches_anySuffix(host, d) ==
    LET dd == Trim(ToLowerCase(d)) IN
    IF dd = <<>> THEN FALSE ELSE EndsWith(host, dd)

\* one entry d of forceDomains against a host
DomainMatches(host, d) ==
    LET dd == Trim(ToLowerCase(d)) IN
    IF dd = <<>> THEN FALSE
    ELSE IF Head(dd) = "." THEN EndsWith(host, dd)
    ELSE host = dd \/ EndsWith(host, <<".">> \o dd)

\* forceDomains is a sequence of entries; null and [] are both <<>>
urlAllowedByForceDomains(url, forceDomains) ==
    IF forceDomains = <<>> THEN TRUE
    ELSE LET u == ParseUrl(url) IN
         IF ~u.ok THEN FALSE
         ELSE \E k \in 1..Len(forceDomains) : DomainMatches(u.hostname, forceDomains[k])

\* Number(f.confidence || 1): a falsy confidence (missing, 0) becomes 1
ConfidenceOf(raw) == IF raw = 0 THEN 1 ELSE raw

\* a callback that leaves the confidence as the extraction stage gave it
NormalizeFact_noClamp(f) ==
    LET url == normalizeUrl(f.url)
    IN [fact |-> f.fact,
        url |-> url,
        confidence |-> ConfidenceOf(f.confidence),
        source_quality |-> domainQualityScore(url)]

\* the .map callback of the round: trim the URL, score it, clamp confidence
NormalizeFact(f) ==
    LET url == normalizeUrl(f.url)
        source_quality == domainQualityScore(url)
        confidence == ConfidenceOf(f.confidence)
    IN [fact |-> f.fact,
        url |-> url,
        confidence |-> IF source_quality <= 2 /\ confidence > 3 THEN 3 ELSE confidence,
        source_quality |-> source_quality]

\* filters that do not look at the confidence
Acceptable_anyConfidence(f, forceDomains) ==
    /\ f.fact # <<>>
    /\ f.url # <<>>
    /\ urlAllowedByForceDomains(f.url, forceDomains)

\* the two .filter callbacks of the round
Acceptable(f, forceDomains) ==
    /\ f.fact # <<>>
    /\ f.url # <<>>
    /\ f.confidence >= 2
    /\ urlAllowedByForceDomains(f.url, forceDomains)

RECURSIVE SelectFacts(_, _)
SelectFacts(facts, forceDomains) ==
    IF facts = <<>> THEN <<>>
    ELSE LET rest == SelectFacts(Tail(facts), forceDomains)
         IN IF Acceptable(Head(facts), forceDomains)
            THEN <<Head(facts)>> \o rest
            ELSE rest


UrlsOf(facts) == {facts[i].url : i \in 1..Len(facts)}

\* comparator of the final sort: source quality, then confidence, descending
\* a comparison that also moves a fact before one equal to it on both keys
RanksBefore_orEqual(a, b) ==
    \/ a.source_quality > b.source_quality
    \/ a.source_quality = b.source_quality /\ a.confidence >= b.confidence

RanksBefore(a, b) ==
    \/ a.source_quality > b.source_quality
    \/ a.source_quality = b.source_quality /\ a.confidence > b.confidence

\* stable insertion of f into an already sorted list
RECURSIVE InsertRanked(_, _)
InsertRanked(sorted, f) ==
    IF sorted = <<>> THEN <<f>>
    ELSE IF RanksBefore(f, Head(sorted))
         THEN <<f>> \o sorted
         ELSE <<Head(sorted)>> \o InsertRanked(Tail(sorted), f)

RECURSIVE SortFacts(_)
SortFacts(facts) ==
    IF facts = <<>> THEN <<>>
    ELSE InsertRanked(SortFacts(SubSeq(facts, 1, Len(facts) - 1)), facts[Len(facts)])

----------------------------------------------------------------------------
\* Inputs of the research loop

\* "https://x.edu/page"
UrlEdu == <<"h", "t", "t", "p", "s", ":", "/", "/", "x", ".", "e", "d", "u", "/", "p", "a", "g", "e">>

\* " https://example.medium.com/post" (leading blank, removed by normalizeUrl)
UrlBlog == <<" ", "h", "t", "t", "p", "s", ":", "/", "/", "e", "x", "a", "m", "p", "l", "e", ".", "m", "e", "d", "i", "u", "m", ".", "c", "o", "m", "/", "p", "o", "s", "t">>

\* "https://x.com/user/status/1"
UrlSocial == <<"h", "t", "t", "p", "s", ":", "/", "/", "x", ".", "c", "o", "m", "/", "u", "s", "e", "r", "/", "s", "t", "a", "t", "u", "s", "/", "1">>

\* "https://en.wikipedia.org/wiki/X"
UrlWiki == <<"h", "t", "t", "p", "s", ":", "/", "/", "e", "n", ".", "w", "i", "k", "i", "p", "e", "d", "i", "a", ".", "o", "r", "g", "/", "w", "i", "k", "i", "/", "X">>

RawFact(text, url, confidence) == [fact |-> text, url |-> url, confidence |-> confidence]

\* candidate facts as the extraction stage may return them
fA == RawFact(<<"a">>, UrlEdu, 4)

fA2 == RawFact(<<" ", "A", " ">>, UrlWiki, 5)

fB == RawFact(<<"b">>, UrlBlog, 5)

fC == RawFact(<<"c">>, UrlSocial, 2)

fD == RawFact(<<"d">>, UrlEdu, 3)

fE == RawFact(<<"e">>, UrlEdu, 4)

fF == RawFact(<<"f">>, UrlBlog, 2)

fLow == RawFact(<<"g">>, UrlWiki, 1)

fNoConf == RawFact(<<"h">>, UrlEdu, 0)

fNoUrl == RawFact(<<"i">>, <<>>, 4)

fBlank == RawFact(<<" ">>, UrlEdu, 4)

\* a confidence outside the scale the prompt asks for
fOver == RawFact(<<"j">>, UrlEdu, 7)

\* "n/a" where the prompt asks for the source url
fBadUrl == RawFact(<<"k">>, <<"n", "/", "a">>, 4)

\* the fact lists one extraction call may return; <<>> is also the parse-failure default
ExtractOutputs ==
    { <<>>,
      <<fA>>,
      <<fB, fC, fD>>,
      <<fA2, fE>>,
      <<fBlank, fNoUrl, fNoConf, fLow, fF, fOver, fBadUrl>> }

\* roundFacts.map(...) for each possible extraction output (the callback is pure,
\* so the table is computed once)
Normalized == [e \in ExtractOutputs |-> [i \in 1..Len(e) |-> NormalizeFact(e[i])]]

\* roundFacts after the map and the two filters
RoundFacts(rawFacts, forceDomains) == SelectFacts(Normalized[rawFacts], forceDomains)

StopWhen(s, f, n) == [min_distinct_sources |-> s, min_facts |-> f, no_new_facts_rounds |-> n]

PlanOf(isArray, queries, stop) == [queries_is_array |-> isArray, queries |-> queries, stop_when |-> stop]

\* the fallback of planner when the model's text does not parse
DefaultPlan == PlanOf(TRUE, <<"question">>, StopWhen(3, 8, 2))

\* planner outputs; a stop_when field of 0 stands for a missing or falsy value
Plans ==
    { DefaultPlan,
      PlanOf(TRUE, <<"q1", "q2", "q3">>, StopWhen(2, 5, 1)),
      PlanOf(TRUE, <<"q1", "q2">>, StopWhen(0, 4, 3)),
      PlanOf(TRUE, <<>>, StopWhen(1, 2, 0)),
      PlanOf(FALSE, <<>>, StopWhen(0, 0, 0)) }

MaxFactsChoices == {5}

MinNewFactsChoices == {0, 1, 3}

\* configurations of requests for a standard model
Configs ==
    [model : {"standard"},
     background : {FALSE},
     maxSearchRounds : 1..MaxRounds,
     maxFacts : MaxFactsChoices,
     minNewFactsPerRound : MinNewFactsChoices,
     forceDomains : {<<>>},
     maxRetries : {3}]

\* configurations of requests for a deep-research model (loop options at their defaults)
DeepConfigs ==
    [model : {"deep-research"},
     background : BOOLEAN,
     maxSearchRounds : {4},
     maxFacts : {18},
     minNewFactsPerRound : {2},
     forceDomains : {<<>>},
     maxRetries : {3}]

isDeepResearchModel(model) == model = "deep-research"

Drafts == {"draft"}

\* validator outputs: supported, rewritten, the parse-failure default (whose
\* revised_answer is the draft), and unsupported without a rewritten answer
Validations ==
    { [ok |-> TRUE, revised_answer |-> "revised"],
      [ok |-> FALSE, revised_answer |-> "revised"],
      [ok |-> FALSE, revised_answer |-> "draft"],
      [ok |-> FALSE, revised_answer |-> ""] }

NoPlan == PlanOf(FALSE, <<>>, StopWhen(0, 0, 0))

NoResponse == [outcome |-> "none"]

\* a job object: its status and the text extractText finds in it
JobOf(status, output) == [status |-> status, output |-> output]

NoJob == JobOf("none", "")

\* what the provider can answer to a status fetch
PollOf(type, retry_after, mentions_rate_limit) ==
    [type |-> type, retry_after |-> retry_after, mentions_rate_limit |-> mentions_rate_limit]

NoPoll == PollOf("none", -1, FALSE)

\* no invocation of retryWithBackoff is being followed
NoRetry == [state |-> "idle"]

\* no helper function is being applied
NoCall == [fn |-> "none"]

\* no requests are being served side by side
NoSide ==
    /\ call = NoCall
    /\ reqs = <<>>
    /\ feed = <<>>

\* the fetch handler's catch: an exception becomes {error, stack} with status 500
Thrown(message) ==
    [outcome |-> "exception", error |-> message, response_id |-> "absent",
     status |-> "absent", has_trace |-> FALSE]

----------------------------------------------------------------------------
\* deepResearchAgent: the synchronous pipeline

\* queries = Array.isArray(plan.queries) ? plan.queries.slice(0, 10) : [question]
QueriesOf(p) ==
    IF p.queries_is_array THEN SubSeq(p.queries, 1, Min(10, Len(p.queries)))
    ELSE <<"question">>

\* Number(x || dflt)
NumberOr(x, dflt) == IF x = 0 THEN dflt ELSE x

minSources(p) == NumberOr(p.stop_when.min_distinct_sources, 3)

minFacts(p) == NumberOr(p.stop_when.min_facts, 8)

noNewRoundsLimit(p) == NumberOr(p.stop_when.no_new_facts_rounds, 2)

\* mutant: the rotation starts at the second query
QueryIndex_fromRound(r, n) == r % Max(1, n)

\* q = queries[(round - 1) % Math.max(1, queries.length)]
QueryIndex(r, n) == (r - 1) % Max(1, n)

QueryFor(r, p) ==
    LET queries == QueriesOf(p)
        i == QueryIndex(r, Len(queries))
    IN IF i < Len(queries) THEN queries[i + 1] ELSE "undefined"

\* mutant: the loop runs one round too many
LoopContinues_oneMore(r, c) == r <= c.maxSearchRounds + 1

\* the loop test: round <= cfg.maxSearchRounds
LoopContinues(r, c) == r <= c.maxSearchRounds

\* mutant: a productive round does not reset the counter
NextNoNewRounds_noReset(count, newFacts, c) ==
    IF newFacts < c.minNewFactsPerRound THEN count + 1 ELSE count

\* noNewRounds after a round that added newFacts facts
NextNoNewRounds(count, newFacts, c) ==
    IF newFacts < c.minNewFactsPerRound THEN count + 1 ELSE 0

\* mutant: coverage is tested before the fact budget
StopReason_coverageFirst(facts, urls, stagnant, c, p) ==
    IF Cardinality(urls) >= minSources(p) /\ Len(facts) >= minFacts(p) THEN "coverage_reached"
    ELSE IF Len(facts) >= c.maxFacts THEN "max_facts_reached"
    ELSE IF stagnant >= noNewRoundsLimit(p) THEN "stagnation"
    ELSE "none"

\* the three breaks at the end of a round, in program order
StopReason(facts, urls, stagnant, c, p) ==
    IF Len(facts) >= c.maxFacts THEN "max_facts_reached"
    ELSE IF Cardinality(urls) >= minSources(p) /\ Len(facts) >= minFacts(p) THEN "coverage_reached"
    ELSE IF stagnant >= noNewRoundsLimit(p) THEN "stagnation"
    ELSE "none"

ResearchInit ==
    /\ kind = "research"
    /\ pc = "planning"
    /\ cfg \in Configs
    /\ plan = NoPlan
    /\ round = 0
    /\ allFacts = <<>>
    /\ seenUrls = {}
    /\ noNewRounds = 0
    /\ trace = <<>>
    /\ draft = ""
    /\ response = NoResponse
    /\ job = NoJob
    /\ result = NoJob
    /\ consecutiveErrors = 0
    /\ elapsed = 0
    /\ fetches = 0
    /\ lastPoll = NoPoll
    /\ calls = <<>>
    /\ retry = NoRetry
    /\ NoSide

\* a pipeline that swallows the failure of a stage and answers all the same
StageFails_swallowed(stage, message) ==
    /\ kind = "research"
    /\ pc = stage
    /\ pc' = "done"
    /\ response' = [outcome |-> "success", ok |-> TRUE, answer |-> draft,
                    fact_table |-> allFacts, validation |-> [ok |-> FALSE, revised_answer |-> ""]]
    /\ UNCHANGED <<kind, cfg, retry, sideVars, trace, researchVars, jobVars>>

\* a stage whose provider call is not ok throws: deepResearchAgent unwinds, its
\* locals are gone, and the request ends with the error
StageFails(stage, message) ==
    /\ kind = "research"
    /\ pc = stage
    /\ pc' = "aborted"
    /\ response' = Thrown(message)
    /\ plan' = NoPlan
    /\ round' = 0
    /\ allFacts' = <<>>
    /\ seenUrls' = {}
    /\ noNewRounds' = 0
    /\ trace' = <<>>
    /\ draft' = ""
    /\ UNCHANGED <<kind, cfg, retry, sideVars, jobVars>>

Planner ==
    /\ kind = "research"
    /\ pc = "planning"
    /\ \E p \in Plans :
        /\ plan' = p
        /\ trace' = Append(trace, [phase |-> "plan"])
    /\ round' = 1
    /\ pc' = IF LoopContinues(1, cfg) THEN "searching" ELSE "synthesizing"
    /\ UNCHANGED <<kind, cfg, retry, sideVars, allFacts, seenUrls, noNewRounds, draft, response, jobVars>>

\* a loop that goes from a search to the next round, extracting nothing
WebSearch_skipsExtraction ==
    /\ kind = "research"
    /\ pc = "searching"
    /\ trace' = Append(trace, [phase |-> "search", round |-> round, query |-> QueryFor(round, plan)])
    /\ round' = round + 1
    /\ pc' = IF LoopContinues(round + 1, cfg) THEN "searching" ELSE "synthesizing"
    /\ UNCHANGED <<kind, cfg, retry, sideVars, plan, allFacts, seenUrls, noNewRounds, draft, response, jobVars>>

WebSearch ==
    /\ kind = "research"
    /\ pc = "searching"
    /\ trace' = Append(trace, [phase |-> "search", round |-> round, query |-> QueryFor(round, plan)])
    /\ pc' = "extracting"
    /\ UNCHANGED <<kind, cfg, retry, sideVars, plan, round, allFacts, seenUrls, noNewRounds, draft, response, jobVars>>

\* a round that counts the URL of every candidate, kept or not
RoundTail_countsOffered(c, p, rnd, facts, urls0, stagnant0, extracted) ==
    LET roundFacts == RoundFacts(extracted, c.forceDomains)
        before == Len(facts)
        merged == dedupeFacts(facts \o roundFacts)
        newFacts == Len(merged) - before
        urls == urls0 \cup ((UrlsOf(merged) \cup UrlsOf(Normalized[extracted])) \ {<<>>})
        stagnant == NextNoNewRounds(stagnant0, newFacts, c)
        reason == StopReason(merged, urls, stagnant, c, p)
        event == [phase |-> "extract", round |-> rnd,
                  rawFactCount |-> Len(extracted),
                  filteredFactCount |-> Len(roundFacts),
                  newFacts |-> newFacts,
                  totalFacts |-> Len(merged),
                  distinctSources |-> Cardinality(urls)]
    IN [allFacts |-> merged,
        seenUrls |-> urls,
        noNewRounds |-> stagnant,
        events |-> IF reason # "none"
                   THEN <<event, [phase |-> "stop", reason |-> reason]>>
                   ELSE <<event>>,
        round |-> IF reason # "none" THEN rnd ELSE rnd + 1,
        pc |-> IF reason # "none" THEN "synthesizing"
               ELSE IF LoopContinues(rnd + 1, c) THEN "searching" ELSE "synthesizing"]

\* the rest of a round once extractFacts has answered, on the locals of the
\* call: normalise, filter, merge, count, update the stagnation counter,
\* evaluate the stop conditions
RoundTail(c, p, rnd, facts, urls0, stagnant0, extracted) ==
    LET roundFacts == RoundFacts(extracted, c.forceDomains)
        before == Len(facts)
        merged == dedupeFacts(facts \o roundFacts)
        newFacts == Len(merged) - before
        urls == urls0 \cup (UrlsOf(merged) \ {<<>>})
        stagnant == NextNoNewRounds(stagnant0, newFacts, c)
        reason == StopReason(merged, urls, stagnant, c, p)
        event == [phase |-> "extract", round |-> rnd,
                  rawFactCount |-> Len(extracted),
                  filteredFactCount |-> Len(roundFacts),
                  newFacts |-> newFacts,
                  totalFacts |-> Len(merged),
                  distinctSources |-> Cardinality(urls)]
    IN [allFacts |-> merged,
        seenUrls |-> urls,
        noNewRounds |-> stagnant,
        events |-> IF reason # "none"
                   THEN <<event, [phase |-> "stop", reason |-> reason]>>
                   ELSE <<event>>,
        round |-> IF reason # "none" THEN rnd ELSE rnd + 1,
        pc |-> IF reason # "none" THEN "synthesizing"
               ELSE IF LoopContinues(rnd + 1, c) THEN "searching" ELSE "synthesizing"]

\* extractFacts and the rest of the round
ExtractFacts ==
    /\ kind = "research"
    /\ pc = "extracting"
    /\ \E extracted \in ExtractOutputs :
        LET t == RoundTail(cfg, plan, round, allFacts, seenUrls, noNewRounds, extracted)
        IN /\ allFacts' = t.allFacts
           /\ seenUrls' = t.seenUrls
           /\ noNewRounds' = t.noNewRounds
           /\ trace' = trace \o t.events
           /\ round' = t.round
           /\ pc' = t.pc
    /\ UNCHANGED <<kind, cfg, retry, sideVars, plan, draft, response, jobVars>>

Synthesize ==
    /\ kind = "research"
    /\ pc = "synthesizing"
    /\ allFacts' = SortFacts(allFacts)
    /\ \E d \in Drafts :
        /\ draft' = d
        /\ trace' = Append(trace, [phase |-> "draft"])
    /\ pc' = "validating"
    /\ UNCHANGED <<kind, cfg, retry, sideVars, plan, round, seenUrls, noNewRounds, response, jobVars>>

\* an engine that takes the validator's text whatever the verdict
AnswerOf_alwaysRevised(validation, d) == validation.revised_answer

\* answer = validation.ok ? draft : (validation.revised_answer || draft)
AnswerOf(validation, d) ==
    IF validation.ok THEN d
    ELSE IF validation.revised_answer # "" THEN validation.revised_answer ELSE d

FactTable(facts) ==
    [i \in 1..Len(facts) |->
        [id |-> i, fact |-> facts[i].fact, url |-> facts[i].url,
         confidence |-> facts[i].confidence, source_quality |-> facts[i].source_quality]]

Validate ==
    /\ kind = "research"
    /\ pc = "validating"
    /\ \E validation \in Validations :
        /\ trace' = Append(trace, [phase |-> "validate"])
        /\ response' = [outcome |-> "success", ok |-> TRUE,
                        answer |-> AnswerOf(validation, draft),
                        fact_table |-> FactTable(allFacts),
                        validation |-> validation]
    /\ pc' = "done"
    /\ UNCHANGED <<kind, cfg, retry, sideVars, plan, round, allFacts, seenUrls, noNewRounds, draft, jobVars>>

PlannerFails == StageFails("planning", "OpenAI planner error")

WebSearchFails == StageFails("searching", "OpenAI web_search error")

ExtractFactsFails == StageFails("extracting", "OpenAI extractFacts error")

\* the extraction text parses to JSON whose facts field is truthy but no array
\* (a string, an object), or an array with a null entry: roundFacts.map(...)
\* throws a TypeError in deepResearchAgent
ExtractFactsRaises == StageFails("extracting", "roundFacts.map is not a function")

SynthesizeFails == StageFails("synthesizing", "OpenAI synthesize error")

ValidateFails == StageFails("validating", "OpenAI validate error")

----------------------------------------------------------------------------
\* The provider's side of a background job

Statuses == {"queued", "in_progress", "completed", "failed", "cancelled"}

\* the statuses the poll loops keep polling on
NonTerminal == {"queued", "in_progress"}

Answers == {"answer1", "answer2"}

\* a completed job carries its answer text; any other job carries none
Jobs ==
    {JobOf(st, "") : st \in Statuses \ {"completed"}} \cup {JobOf("completed", a) : a \in Answers}

\* retry-after header of a 429 answer in seconds; -1 stands for no header
RetryAfterHeaders == {-1, 0}

PollOutcomes ==
    {PollOf("ok", -1, FALSE), PollOf("bad_body", -1, FALSE), PollOf("transport_error", -1, FALSE)}
        \cup {PollOf("rate_limited", r, FALSE) : r \in RetryAfterHeaders}
        \cup {PollOf("http_error", -1, m) : m \in BOOLEAN}

\* the provider works on the job
JobProgress ==
    /\ kind \in {"deep", "resume"}
    /\ \/ /\ job.status = "queued"
          /\ job' = JobOf("in_progress", "")
       \/ /\ job.status = "in_progress"
          /\ job' \in {JobOf("failed", "")} \cup {JobOf("completed", a) : a \in Answers}
    /\ UNCHANGED <<kind, pc, cfg, retry, sideVars, trace, response, researchVars,
                   result, consecutiveErrors, elapsed, fetches, lastPoll, calls>>

\* POST /cancel/:id served for another request: the provider cancels the job
CancelJob ==
    /\ kind \in {"deep", "resume"}
    /\ job.status \in NonTerminal
    /\ job' = JobOf("cancelled", "")
    /\ UNCHANGED <<kind, pc, cfg, retry, sideVars, trace, response, researchVars,
                   result, consecutiveErrors, elapsed, fetches, lastPoll, calls>>

----------------------------------------------------------------------------
\* Polling: runDeepResearchModel and handleResumeResponse

\* pollInterval, in seconds
PollInterval == 5

maxConsecutiveErrors == 3

\* parseInt(header || "5") of the submission path
SubmitRetryDefault == 5

\* parseInt(header || "10") of the resume path
ResumeRetryDefault == 10

retryAfter(o, dflt) == IF o.retry_after = -1 THEN dflt ELSE o.retry_after

\* a loop test that looks at the clock only
KeepsPolling_clockOnly(res, t) == t < MaxWait

\* a loop test that looks at the status only
KeepsPolling_statusOnly(res, t) == res.status \in NonTerminal

\* the loop test of both poll loops
KeepsPolling(res, t) == res.status \in NonTerminal /\ t < MaxWait

\* a JSON reply of a handler; fields the reply does not have are "absent"
Reply(ok, error, answer, status, raw_status, has_trace, tr) ==
    [outcome |-> "returned", ok |-> ok, error |-> error, answer |-> answer,
     response_id |-> "job", status |-> status, raw_status |-> raw_status,
     has_trace |-> has_trace, trace |-> tr]

\* one pass through a poll loop: the counter, the job object and the clock after
\* it, the trace events it pushed, and how it left the loop ("none": it did not)
Pass(errors, res, t, events, exit, message) ==
    [errors |-> errors, result |-> res, elapsed |-> t, events |-> events,
     exit |-> exit, message |-> message]

\* catch (err) of the submission loop, on the loop's own result object res
SubmitCatchOf(res, errors, message, mentionsRateLimit, events, t) ==
    IF mentionsRateLimit
    THEN Pass(errors, res, t, events, "throw", message)
    ELSE IF errors + 1 >= maxConsecutiveErrors
         THEN Pass(errors + 1, res, t, events, "throw", message)
         ELSE Pass(errors + 1, res, t,
                   events \o <<[phase |-> "poll_error", attempt |-> errors + 1]>>,
                   "none", "")

SubmitCatch(errors, message, mentionsRateLimit, events, t) ==
    SubmitCatchOf(result, errors, message, mentionsRateLimit, events, t)

\* the body of the while loop of runDeepResearchModel for provider answer o,
\* on the loop's own counter, result object and clock; j is the job as the
\* provider has it
SubmitPassOf(errors, res, clock, j, o) ==
    LET t == clock + PollInterval IN
    CASE o.type = "transport_error" ->
            SubmitCatchOf(res, errors, "fetch failed", FALSE, <<>>, t)
      [] o.type = "rate_limited" ->
            LET n == errors + 1
                ev == <<[phase |-> "rate_limit", attempt |-> n]>>
            IN IF n >= maxConsecutiveErrors
               THEN SubmitCatchOf(res, n, "Rate limit exceeded after 3 retries", TRUE, ev, t)
               ELSE Pass(n, res, t + retryAfter(o, SubmitRetryDefault), ev, "none", "")
      [] o.type = "http_error" ->
            SubmitCatchOf(res, errors, "Polling error", o.mentions_rate_limit, <<>>, t)
      [] o.type = "bad_body" ->
            SubmitCatchOf(res, 0, "Unexpected token", FALSE, <<>>, t)
      [] o.type = "ok" ->
            Pass(0, j, t, <<[phase |-> "poll", status |-> j.status]>>, "none", "")

SubmitPass(o) == SubmitPassOf(consecutiveErrors, result, elapsed, job, o)

\* runDeepResearchModel after the loop, or without one
SubmitFinish(res, tr) ==
    IF res.status = "failed"
    THEN LET tr2 == Append(tr, [phase |-> "failed"]) IN
         [trace |-> tr2,
          response |-> Reply(FALSE, "Deep research failed", "", "absent", res.status, TRUE, tr2)]
    ELSE LET tr2 == Append(tr, [phase |-> "complete", status |-> res.status]) IN
         [trace |-> tr2,
          response |-> Reply(TRUE, "", res.output, "absent", res.status, TRUE, tr2)]

\* a catch that also forgets the job object fetched before the failure
ResumeCatchOf_forgets(res, errors, message, events, t) ==
    IF errors + 1 >= maxConsecutiveErrors
    THEN Pass(errors + 1, NoJob, t, events, "return", message)
    ELSE Pass(errors + 1, NoJob, t,
              events \o <<[phase |-> "poll_error", attempt |-> errors + 1]>>,
              "none", "")

\* catch (err) of the resume loop, on the loop's own result object res
ResumeCatchOf(res, errors, message, events, t) ==
    IF errors + 1 >= maxConsecutiveErrors
    THEN Pass(errors + 1, res, t, events, "return", message)
    ELSE Pass(errors + 1, res, t,
              events \o <<[phase |-> "poll_error", attempt |-> errors + 1]>>,
              "none", "")

ResumeCatch(errors, message, events, t) == ResumeCatchOf(result, errors, message, events, t)

\* the body of the while loop of handleResumeResponse for provider answer o,
\* on the loop's own counter, result object and clock; j is the job as the
\* provider has it
ResumePassOf(errors, res, clock, j, o) ==
    LET t == clock + PollInterval IN
    CASE o.type = "transport_error" ->
            ResumeCatchOf(res, errors, "fetch failed", <<>>, t)
      [] o.type = "rate_limited" ->
            LET n == errors + 1
                ev == <<[phase |-> "rate_limit", attempt |-> n]>>
            IN IF n >= maxConsecutiveErrors
               THEN Pass(n, res, t, ev, "return", "Rate limit exceeded after 3 retries")
               ELSE Pass(n, res, t + retryAfter(o, ResumeRetryDefault), ev, "none", "")
      [] o.type = "http_error" ->
            ResumeCatchOf(res, errors, "Polling error", <<>>, t)
      [] o.type = "bad_body" ->
            ResumeCatchOf(res, 0, "Unexpected token", <<>>, t)
      [] o.type = "ok" ->
            Pass(0, j, t, <<[phase |-> "poll", status |-> j.status]>>, "none", "")

ResumePass(o) == ResumePassOf(consecutiveErrors, result, elapsed, job, o)

\* handleResumeResponse after the loop
ResumeFinish(res, tr) ==
    IF res.status = "completed"
    THEN LET tr2 == Append(tr, [phase |-> "complete"]) IN
         [trace |-> tr2,
          response |-> Reply(TRUE, "", res.output, "absent", res.status, TRUE, tr2)]
    ELSE IF res.status = "failed"
    THEN LET tr2 == Append(tr, [phase |-> "failed"]) IN
         [trace |-> tr2,
          response |-> Reply(FALSE, "Deep research failed", "", "absent", res.status, TRUE, tr2)]
    ELSE [trace |-> tr,
          response |-> Reply(FALSE, "Unknown status", "", res.status, res.status, TRUE, tr)]

\* a handler that hands a completed answer out once and remembers that it did
ResumeImmediate_oneShot(res, tr) ==
    IF res.status = "completed"
    THEN Reply(TRUE, "", IF calls = <<>> THEN res.output ELSE "", "absent", res.status, TRUE, tr)
    ELSE IF res.status = "failed"
    THEN Reply(FALSE, "Deep research failed", "", "absent", res.status, TRUE, tr)
    ELSE Reply(FALSE, "Research was cancelled", "", "absent", res.status, TRUE, tr)

\* handleResumeResponse when the first fetch already shows a final status
ResumeImmediate(res, tr) ==
    IF res.status = "completed"
    THEN Reply(TRUE, "", res.output, "absent", res.status, TRUE, tr)
    ELSE IF res.status = "failed"
    THEN Reply(FALSE, "Deep research failed", "", "absent", res.status, TRUE, tr)
    ELSE Reply(FALSE, "Research was cancelled", "", "absent", res.status, TRUE, tr)

DeepInit ==
    /\ kind = "deep"
    /\ pc = "submitting"
    /\ cfg \in DeepConfigs
    /\ job = NoJob

\* GET /research/:id for a job some earlier process submitted
ResumeInit ==
    /\ kind = "resume"
    /\ pc = "resuming"
    /\ cfg \in {c \in DeepConfigs : c.background}
    /\ job \in Jobs

JobInit ==
    /\ DeepInit \/ ResumeInit
    /\ plan = NoPlan
    /\ round = 0
    /\ allFacts = <<>>
    /\ seenUrls = {}
    /\ noNewRounds = 0
    /\ trace = <<>>
    /\ draft = ""
    /\ response = NoResponse
    /\ result = NoJob
    /\ consecutiveErrors = 0
    /\ elapsed = 0
    /\ fetches = 0
    /\ lastPoll = NoPoll
    /\ calls = <<>>
    /\ retry = NoRetry
    /\ NoSide

\* openaiResponsesCreate is not ok, or its fetch throws
SubmitFails ==
    /\ kind = "deep"
    /\ pc = "submitting"
    /\ trace' = <<[phase |-> "request"]>>
    /\ response' = Thrown("OpenAI deep research error")
    /\ pc' = "returned"
    /\ UNCHANGED <<kind, cfg, retry, sideVars, researchVars, jobVars>>

\* the provider accepts the request and answers with the job
Submit ==
    /\ kind = "deep"
    /\ pc = "submitting"
    /\ \E j \in Jobs :
        LET tr == <<[phase |-> "request"], [phase |-> "initial_response", status |-> j.status]>> IN
        /\ j.status # "cancelled"
        /\ job' = j
        /\ result' = j
        /\ IF cfg.background /\ j.status \in NonTerminal
           THEN /\ trace' = Append(tr, [phase |-> "background"])
                /\ response' = response
                /\ pc' = "polling"
           ELSE /\ trace' = SubmitFinish(j, tr).trace
                /\ response' = SubmitFinish(j, tr).response
                /\ pc' = "returned"
    /\ UNCHANGED <<kind, cfg, retry, sideVars, researchVars, consecutiveErrors, elapsed, fetches, lastPoll, calls>>

\* one iteration of the submission poll loop, with what follows when the loop ends
SubmitPoll ==
    /\ kind = "deep"
    /\ pc = "polling"
    /\ \E o \in PollOutcomes :
        LET p == SubmitPass(o)
            tr == trace \o p.events
        IN /\ lastPoll' = o
           /\ fetches' = fetches + 1
           /\ consecutiveErrors' = p.errors
           /\ result' = p.result
           /\ elapsed' = p.elapsed
           /\ IF p.exit = "throw"
              THEN /\ trace' = tr
                   /\ response' = Thrown(p.message)
                   /\ pc' = "returned"
              ELSE IF KeepsPolling(p.result, p.elapsed)
              THEN /\ trace' = tr
                   /\ response' = response
                   /\ pc' = "polling"
              ELSE IF p.result.status \in NonTerminal
              THEN /\ trace' = tr
                   /\ response' = Thrown("Deep research timed out after 30 minutes")
                   /\ pc' = "returned"
              ELSE /\ trace' = SubmitFinish(p.result, tr).trace
                   /\ response' = SubmitFinish(p.result, tr).response
                   /\ pc' = "returned"
    /\ UNCHANGED <<kind, cfg, retry, sideVars, researchVars, job, calls>>

\* the first status fetch of handleResumeResponse
ResumeFetch ==
    /\ kind = "resume"
    /\ pc = "resuming"
    /\ \E o \in PollOutcomes :
        /\ lastPoll' = o
        /\ fetches' = fetches + 1
        /\ CASE o.type \in {"transport_error", "bad_body"} ->
                    /\ trace' = trace
                    /\ result' = result
                    /\ response' = Thrown(IF o.type = "bad_body" THEN "Unexpected token" ELSE "fetch failed")
                    /\ pc' = "returned"
             [] o.type \in {"rate_limited", "http_error"} ->
                    /\ trace' = trace
                    /\ result' = result
                    /\ response' = Reply(FALSE, "Failed to fetch response", "", "absent", "absent", FALSE, <<>>)
                    /\ pc' = "returned"
             [] o.type = "ok" ->
                    LET tr == <<[phase |-> "resume", status |-> job.status]>> IN
                    /\ result' = job
                    /\ IF job.status \in NonTerminal
                       THEN /\ trace' = Append(tr, [phase |-> "polling", status |-> job.status])
                            /\ response' = response
                            /\ pc' = "polling"
                       ELSE /\ trace' = tr
                            /\ response' = ResumeImmediate(job, tr)
                            /\ pc' = "returned"
    /\ UNCHANGED <<kind, cfg, retry, sideVars, researchVars, job, consecutiveErrors, elapsed, calls>>

\* one iteration of the resume poll loop, with what follows when the loop ends
ResumePoll ==
    /\ kind = "resume"
    /\ pc = "polling"
    /\ \E o \in PollOutcomes :
        LET p == ResumePass(o)
            tr == trace \o p.events
        IN /\ lastPoll' = o
           /\ fetches' = fetches + 1
           /\ consecutiveErrors' = p.errors
           /\ result' = p.result
           /\ elapsed' = p.elapsed
           /\ IF p.exit = "return"
              THEN /\ trace' = tr
                   /\ response' = Reply(FALSE, p.message, "", p.result.status, "absent", TRUE, tr)
                   /\ pc' = "returned"
              ELSE IF KeepsPolling(p.result, p.elapsed)
              THEN /\ trace' = tr
                   /\ response' = response
                   /\ pc' = "polling"
              ELSE IF p.result.status \in NonTerminal
              THEN /\ trace' = tr
                   /\ response' = Reply(FALSE, "Polling timed out after 30 minutes", "",
                                        p.result.status, "absent", TRUE, tr)
                   /\ pc' = "returned"
              ELSE /\ trace' = ResumeFinish(p.result, tr).trace
                   /\ response' = ResumeFinish(p.result, tr).response
                   /\ pc' = "returned"
    /\ UNCHANGED <<kind, cfg, retry, sideVars, researchVars, job, calls>>

\* what is remembered of a call that returned
CallSummary ==
    [kind |-> kind, fetches |-> fetches, response |-> response,
     first_status |-> IF trace # <<>> /\ trace[1].phase = "resume" THEN trace[1].status ELSE "none"]

RECURSIVE SumFetches(_)
SumFetches(cs) == IF cs = <<>> THEN 0 ELSE Head(cs).fetches + SumFetches(Tail(cs))

\* the most iterations one poll loop can make
MaxPolls == (MaxWait + PollInterval - 1) \div PollInterval

\* the caller resumes the job with a new GET /research/:id; the handler starts
\* from the job id alone
NewResume ==
    /\ kind \in {"deep", "resume"}
    /\ pc = "returned"
    /\ job # NoJob
    /\ Len(calls) + 1 < MaxCalls
    /\ SumFetches(calls) + fetches + 1 + MaxPolls <= MaxFetches
    /\ calls' = Append(calls, CallSummary)
    /\ kind' = "resume"
    /\ pc' = "resuming"
    /\ trace' = <<>>
    /\ response' = NoResponse
    /\ result' = NoJob
    /\ consecutiveErrors' = 0
    /\ elapsed' = 0
    /\ fetches' = 0
    /\ lastPoll' = NoPoll
    /\ UNCHANGED <<cfg, retry, sideVars, researchVars, job>>

----------------------------------------------------------------------------
\* The remote client: openaiResponsesCreate and retryWithBackoff

\* "Network connection lost."
MsgNetwork == <<"N", "e", "t", "w", "o", "r", "k", " ", "c", "o", "n", "n", "e", "c", "t", "i", "o", "n", " ", "l", "o", "s", "t", ".">>

\* "The operation timed out: Timeout exceeded"
MsgTimeout == <<"T", "h", "e", " ", "o", "p", "e", "r", "a", "t", "i", "o", "n", " ", "t", "i", "m", "e", "d", " ", "o", "u", "t", ":", " ", "T", "i", "m", "e", "o", "u", "t", " ", "e", "x", "c", "e", "e", "d", "e", "d">>

\* "read ECONNRESET"
MsgReset == <<"r", "e", "a", "d", " ", "E", "C", "O", "N", "N", "R", "E", "S", "E", "T">>

\* "internal error"
MsgInternal == <<"i", "n", "t", "e", "r", "n", "a", "l", " ", "e", "r", "r", "o", "r">>

HttpStatuses == {200, 400, 404, 429, 500, 503, 599}

\* what fn() does in one attempt: the provider answers with a status, or fetch throws
Answered(status) == [type |-> "response", status |-> status, message |-> <<>>]

Threw(message) == [type |-> "throw", status |-> 0, message |-> message]

FnOutcomes ==
    {Answered(s) : s \in HttpStatuses} \cup
    {Threw(m) : m \in {MsgNetwork, MsgTimeout, MsgReset, MsgInternal}}

NoOutcome == [type |-> "none", status |-> 0, message |-> <<>>]

\* res.ok of fetch
IsOk(o) == o.type = "response" /\ o.status >= 200 /\ o.status <= 299

Network == <<"n", "e", "t", "w", "o", "r", "k">>

Timeout == <<"t", "i", "m", "e", "o", "u", "t">>

Econnreset == <<"e", "c", "o", "n", "n", "r", "e", "s", "e", "t">>

\* a retry test that knows rate limits only
defaultShouldRetry_only429(o) == o.type = "response" /\ o.status = 429

\* defaultShouldRetry applied to an error response, or to {error: err} for a thrown err
defaultShouldRetry(o) ==
    IF o.type = "response" /\ o.status = 429 THEN TRUE
    ELSE IF o.type = "response" /\ o.status >= 500 /\ o.status < 600 THEN TRUE
    ELSE IF o.type = "throw"
    THEN LET msg == ToLowerCase(o.message) IN
         Includes(msg, Network) \/ Includes(msg, Timeout) \/ Includes(msg, Econnreset)
    ELSE FALSE

\* maxRetries = 3 in the parameter list of openaiResponsesCreate, options.maxRetries ?? 3
DefaultMaxRetries == 3

\* options.baseDelayMs ?? 1000
DefaultBaseDelayMs == 1000

\* baseDelayMs * Math.pow(2, attempt)
BackoffDelay(baseDelayMs, attempt) == baseDelayMs * 2^attempt

\* the functions that call openaiResponsesCreate
Callers == {"planner", "webSearch", "extractFacts", "synthesize", "validate", "runDeepResearchModel"}

\* the maxRetries argument each caller passes: the five stages pass cfg.maxRetries,
\* runDeepResearchModel passes none and gets the default of the parameter
MaxRetriesArg(caller, c) ==
    IF caller = "runDeepResearchModel" THEN DefaultMaxRetries ELSE c.maxRetries

\* the configuration of a request that sets no option but the model
DefaultsWith(model) ==
    [model |-> model, background |-> FALSE, maxSearchRounds |-> 4, maxFacts |-> 18,
     minNewFactsPerRound |-> 2, forceDomains |-> <<>>, maxRetries |-> 3]

\* cfg.maxRetries = clampInt(options.maxRetries ?? 3, 0, 5)
ClientConfigs ==
    {[c EXCEPT !.maxRetries = n] :
        c \in {DefaultsWith("standard"), DefaultsWith("deep-research")}, n \in 0..MaxRetries}

\* a provider call of one of the callers begins
ClientInit ==
    /\ kind = "client"
    /\ pc = "calling"
    /\ cfg \in ClientConfigs
    /\ \E caller \in Callers :
        /\ (caller = "runDeepResearchModel") <=> isDeepResearchModel(cfg.model)
        /\ retry = [state |-> "running",
                    caller |-> caller,
                    maxRetries |-> MaxRetriesArg(caller, cfg),
                    baseDelayMs |-> DefaultBaseDelayMs,
                    attempt |-> 0,
                    lastError |-> NoOutcome,
                    outbound |-> 0,
                    delays |-> <<>>,
                    outcome |-> NoOutcome,
                    result |-> NoOutcome]
    /\ plan = NoPlan
    /\ round = 0
    /\ allFacts = <<>>
    /\ seenUrls = {}
    /\ noNewRounds = 0
    /\ trace = <<>>
    /\ draft = ""
    /\ response = NoResponse
    /\ job = NoJob
    /\ result = NoJob
    /\ consecutiveErrors = 0
    /\ elapsed = 0
    /\ fetches = 0
    /\ lastPoll = NoPoll
    /\ calls = <<>>
    /\ NoSide

\* one iteration of the for loop of retryWithBackoff: fn() is called once; the
\* loop then sleeps and goes on, or the invocation returns or throws
RetryAttempt ==
    /\ kind = "client"
    /\ pc = "calling"
    /\ retry.attempt <= retry.maxRetries
    /\ \E o \in FnOutcomes :
        LET called == [retry EXCEPT !.outbound = @ + 1, !.outcome = o]
            again == retry.attempt < retry.maxRetries /\ defaultShouldRetry(o)
            slept == [called EXCEPT !.lastError = o,
                                    !.delays = Append(@, BackoffDelay(retry.baseDelayMs, retry.attempt)),
                                    !.attempt = @ + 1]
        IN IF o.type = "response"
           THEN IF ~IsOk(o) /\ defaultShouldRetry(o)
                THEN IF again
                     THEN /\ retry' = slept
                          /\ pc' = pc
                     ELSE /\ retry' = [called EXCEPT !.lastError = o, !.state = "returned", !.result = o]
                          /\ pc' = "called"
                ELSE /\ retry' = [called EXCEPT !.state = "returned", !.result = o]
                     /\ pc' = "called"
           ELSE IF again
                THEN /\ retry' = slept
                     /\ pc' = pc
                ELSE /\ retry' = [called EXCEPT !.lastError = o, !.state = "thrown", !.result = o]
                     /\ pc' = "called"
    /\ UNCHANGED <<kind, cfg, trace, response, researchVars, jobVars, sideVars>>

----------------------------------------------------------------------------
\* The helper functions, applied to arguments of their own

\* "https://epa.gov/report"
UrlEpaGov == <<"h", "t", "t", "p", "s", ":", "/", "/", "e", "p", "a", ".", "g", "o", "v", "/", "r", "e", "p", "o", "r", "t">>

\* "https://epa.com/report"
UrlEpaCom == <<"h", "t", "t", "p", "s", ":", "/", "/", "e", "p", "a", ".", "c", "o", "m", "/", "r", "e", "p", "o", "r", "t">>

\* "https://notopenai.com/a"
UrlNotOpenai == <<"h", "t", "t", "p", "s", ":", "/", "/", "n", "o", "t", "o", "p", "e", "n", "a", "i", ".", "c", "o", "m", "/", "a">>

\* "https://openai.com/a"
UrlOpenai == <<"h", "t", "t", "p", "s", ":", "/", "/", "o", "p", "e", "n", "a", "i", ".", "c", "o", "m", "/", "a">>

\* "https://api.openai.com/a"
UrlApiOpenai == <<"h", "t", "t", "p", "s", ":", "/", "/", "a", "p", "i", ".", "o", "p", "e", "n", "a", "i", ".", "c", "o", "m", "/", "a">>

\* "HTTPS://EPA.GOV/Report"
UrlUpper == <<"H", "T", "T", "P", "S", ":", "/", "/", "E", "P", "A", ".", "G", "O", "V", "/", "R", "e", "p", "o", "r", "t">>

\* "https://user@epa.gov:8443/x"
UrlUserPort == <<"h", "t", "t", "p", "s", ":", "/", "/", "u", "s", "e", "r", "@", "e", "p", "a", ".", "g", "o", "v", ":", "8", "4", "4", "3", "/", "x">>

\* "https://epa.gov.example.com/"
UrlGovInside == <<"h", "t", "t", "p", "s", ":", "/", "/", "e", "p", "a", ".", "g", "o", "v", ".", "e", "x", "a", "m", "p", "l", "e", ".", "c", "o", "m", "/">>

\* "https://nist.gov/x"
UrlNist == <<"h", "t", "t", "p", "s", ":", "/", "/", "n", "i", "s", "t", ".", "g", "o", "v", "/", "x">>

\* "https://example.medium.com/post"
UrlMedium == <<"h", "t", "t", "p", "s", ":", "/", "/", "e", "x", "a", "m", "p", "l", "e", ".", "m", "e", "d", "i", "u", "m", ".", "c", "o", "m", "/", "p", "o", "s", "t">>

\* "https://example.org/a"
UrlPlain == <<"h", "t", "t", "p", "s", ":", "/", "/", "e", "x", "a", "m", "p", "l", "e", ".", "o", "r", "g", "/", "a">>

\* "https://www.ietf.org/rfc/1"
UrlIetf == <<"h", "t", "t", "p", "s", ":", "/", "/", "w", "w", "w", ".", "i", "e", "t", "f", ".", "o", "r", "g", "/", "r", "f", "c", "/", "1">>

\* "https://arxiv.org/abs/1"
UrlArxiv == <<"h", "t", "t", "p", "s", ":", "/", "/", "a", "r", "x", "i", "v", ".", "o", "r", "g", "/", "a", "b", "s", "/", "1">>

\* "https://usa.gov"
UrlGovEnd == <<"h", "t", "t", "p", "s", ":", "/", "/", "u", "s", "a", ".", "g", "o", "v">>

\* "n/a"
NotAUrl == <<"n", "/", "a">>

\* ".gov"
DGov == <<".", "g", "o", "v">>

\* "openai.com"
DOpenai == <<"o", "p", "e", "n", "a", "i", ".", "c", "o", "m">>

\* " .GOV "
DGovSpaced == <<" ", ".", "G", "O", "V", " ">>

\* ".edu"
DEdu == <<".", "e", "d", "u">>

\* "https://docs.epa.gov/twitter.com"
UrlGovDocs == <<"h", "t", "t", "p", "s", ":", "/", "/", "d", "o", "c", "s", ".", "e", "p", "a", ".", "g", "o", "v", "/", "t", "w", "i", "t", "t", "e", "r", ".", "c", "o", "m">>

\* "https://epa.gov?src=twitter.com"
UrlGovQuery == <<"h", "t", "t", "p", "s", ":", "/", "/", "e", "p", "a", ".", "g", "o", "v", "?", "s", "r", "c", "=", "t", "w", "i", "t", "t", "e", "r", ".", "c", "o", "m">>

\* "https://medium.com/reddit.com"
UrlBlogSocial == <<"h", "t", "t", "p", "s", ":", "/", "/", "m", "e", "d", "i", "u", "m", ".", "c", "o", "m", "/", "r", "e", "d", "d", "i", "t", ".", "c", "o", "m">>

\* "https://docs.wikipedia.org/x"
UrlDocsWiki == <<"h", "t", "t", "p", "s", ":", "/", "/", "d", "o", "c", "s", ".", "w", "i", "k", "i", "p", "e", "d", "i", "a", ".", "o", "r", "g", "/", "x">>

\* "https://en.wikipedia.org/wiki/wordpress"
UrlWikiBlog == <<"h", "t", "t", "p", "s", ":", "/", "/", "e", "n", ".", "w", "i", "k", "i", "p", "e", "d", "i", "a", ".", "o", "r", "g", "/", "w", "i", "k", "i", "/", "w", "o", "r", "d", "p", "r", "e", "s", "s">>

\* "https://blogs.mit.edu/medium.com"
UrlEduBlog == <<"h", "t", "t", "p", "s", ":", "/", "/", "b", "l", "o", "g", "s", ".", "m", "i", "t", ".", "e", "d", "u", "/", "m", "e", "d", "i", "u", "m", ".", "c", "o", "m">>

\* URL arguments; <<>> stands for "", null and undefined alike
UrlArguments ==
    {<<>>, NotAUrl, UrlEdu, UrlBlog, UrlSocial, UrlWiki, UrlEpaGov, UrlEpaCom, UrlNotOpenai,
     UrlOpenai, UrlApiOpenai, UrlUpper, UrlUserPort, UrlGovInside, UrlNist, UrlMedium,
     UrlPlain, UrlIetf, UrlArxiv, UrlGovEnd, UrlGovDocs, UrlGovQuery, UrlBlogSocial,
     UrlDocsWiki, UrlWikiBlog, UrlEduBlog}

\* cfg.forceDomains; <<>> stands for null and for []
ForceDomainsChoices ==
    {<<>>, <<DGov>>, <<DOpenai>>, <<DGovSpaced>>, <<DEdu, DOpenai>>, <<<<>>>>}

\* a value of the options object as Number() sees it: a finite number (in
\* tenths, so that fractions can be given), or something that is not one
Num(tenths) == [kind |-> "number", tenths |-> tenths]

Absent == [kind |-> "absent", tenths |-> 0]

Null == [kind |-> "null", tenths |-> 0]

NotANumber == [kind |-> "text", tenths |-> 0]

Infinite == [kind |-> "infinity", tenths |-> 0]

GivenValues ==
    {Absent, Null, NotANumber, Infinite} \cup
    {Num(t) : t \in {-15, -5, 0, 5, 9, 10, 25, 45, 50, 55, 100, 105, 180, 500, 505, 1000}}

\* v ?? dflt
NullishOr(v, dflt) == IF v.kind \in {"absent", "null"} THEN Num(10 * dflt) ELSE v

\* Math.trunc of a number given in tenths
Trunc(tenths) == IF tenths >= 0 THEN tenths \div 10 ELSE -((-tenths) \div 10)

\* a clamp that has no lower bound
clampInt_upperOnly(v, min, max) ==
    IF v.kind # "number" THEN min ELSE Min(max, Trunc(v.tenths))

clampInt(v, min, max) ==
    IF v.kind # "number" THEN min ELSE Max(min, Min(max, Trunc(v.tenths)))

\* the default and the range of the four numeric options of the research agent
OptionRanges ==
    [maxSearchRounds |-> [dflt |-> 4, min |-> 1, max |-> 10],
     maxFacts |-> [dflt |-> 18, min |-> 5, max |-> 50],
     minNewFactsPerRound |-> [dflt |-> 2, min |-> 0, max |-> 10],
     maxRetries |-> [dflt |-> 3, min |-> 0, max |-> 5]]

\* cfg[name] as the fetch handler builds it from options[name]
EffectiveOption(name, v) ==
    LET r == OptionRanges[name] IN clampInt(NullishOr(v, r.dflt), r.min, r.max)

FnCall(fn, url, forceDomains, option, given) ==
    [fn |-> fn, url |-> url, forceDomains |-> forceDomains, option |-> option,
     given |-> given, allowed |-> FALSE, kept |-> FALSE, number |-> 0]

FnCalls ==
    {FnCall("urlAllowedByForceDomains", u, d, "none", Absent) :
        u \in UrlArguments, d \in ForceDomainsChoices} \cup
    {FnCall("domainQualityScore", u, <<>>, "none", Absent) : u \in UrlArguments} \cup
    {FnCall("clampInt", <<>>, <<>>, o, v) : o \in DOMAIN OptionRanges, v \in GivenValues}

FunctionInit ==
    /\ kind = "function"
    /\ pc = "applying"
    /\ call \in FnCalls
    /\ cfg = DefaultsWith("standard")
    /\ plan = NoPlan
    /\ round = 0
    /\ allFacts = <<>>
    /\ seenUrls = {}
    /\ noNewRounds = 0
    /\ trace = <<>>
    /\ draft = ""
    /\ response = NoResponse
    /\ job = NoJob
    /\ result = NoJob
    /\ consecutiveErrors = 0
    /\ elapsed = 0
    /\ fetches = 0
    /\ lastPoll = NoPoll
    /\ calls = <<>>
    /\ retry = NoRetry
    /\ reqs = <<>>
    /\ feed = <<>>

\* urlAllowedByForceDomains(url, forceDomains), and whether the filters of a
\* round keep a fact with this URL
ApplyUrlAllowed ==
    /\ kind = "function"
    /\ pc = "applying"
    /\ call.fn = "urlAllowedByForceDomains"
    /\ call' = [call EXCEPT
                    !.allowed = urlAllowedByForceDomains(call.url, call.forceDomains),
                    !.kept = SelectFacts(<<NormalizeFact(RawFact(<<"t">>, call.url, 4))>>,
                                         call.forceDomains) # <<>>]
    /\ pc' = "applied"
    /\ UNCHANGED <<kind, cfg, retry, reqs, feed, trace, response, researchVars, jobVars>>

ApplyScore ==
    /\ kind = "function"
    /\ pc = "applying"
    /\ call.fn = "domainQualityScore"
    /\ call' = [call EXCEPT !.number = domainQualityScore(call.url)]
    /\ pc' = "applied"
    /\ UNCHANGED <<kind, cfg, retry, reqs, feed, trace, response, researchVars, jobVars>>

ApplyClamp ==
    /\ kind = "function"
    /\ pc = "applying"
    /\ call.fn = "clampInt"
    /\ call' = [call EXCEPT !.number = EffectiveOption(call.option, call.given)]
    /\ pc' = "applied"
    /\ UNCHANGED <<kind, cfg, retry, reqs, feed, trace, response, researchVars, jobVars>>

FunctionNext == ApplyUrlAllowed \/ ApplyScore \/ ApplyClamp

FunctionSpec == FunctionInit /\ [][FunctionNext]_vars

----------------------------------------------------------------------------
\* Two requests served by one process: the steps of their handlers interleave
\* at every await

\* the steps a request takes at most
MaxSteps == 5

\* the storage a call of a handler works on: the const and let declarations
\* at the head of the handler are evaluated by every call, so call i has its own
Slot_shared(i) == 1

Slot(i) == i

\* the locals of a handler that has just been called
FreshRequest(k, c) ==
    [kind |-> k, cfg |-> c, pc |-> IF k = "research" THEN "planning" ELSE "resuming",
     plan |-> NoPlan, round |-> 0, allFacts |-> <<>>, seenUrls |-> {}, noNewRounds |-> 0,
     trace |-> <<>>, draft |-> "", consecutiveErrors |-> 0, elapsed |-> 0,
     result |-> NoJob, response |-> NoResponse]

\* what the provider answers to one call of a request
ProviderAnswer(stage, p, facts, validation, poll, j) ==
    [stage |-> stage, plan |-> p, facts |-> facts, validation |-> validation,
     poll |-> poll, job |-> j]

StageAnswer(stage) ==
    ProviderAnswer(stage, NoPlan, <<>>, [ok |-> TRUE, revised_answer |-> ""], NoPoll, NoJob)

\* the answers explored for the call that request r is about to make
ProviderAnswers(r) ==
    IF r.kind = "research"
    THEN CASE r.pc = "planning" ->
                {[StageAnswer("plan") EXCEPT !.plan = DefaultPlan], StageAnswer("error")}
           [] r.pc = "searching" -> {StageAnswer("search"), StageAnswer("error")}
           [] r.pc = "extracting" ->
                {[StageAnswer("extract") EXCEPT !.facts = e] : e \in {<<fA>>, <<fA2, fE>>}}
           [] r.pc = "synthesizing" -> {StageAnswer("draft")}
           [] r.pc = "validating" ->
                {[StageAnswer("validate") EXCEPT !.validation = v] :
                    v \in {[ok |-> TRUE, revised_answer |-> "revised"],
                           [ok |-> FALSE, revised_answer |-> "revised"]}}
           [] OTHER -> {}
    ELSE IF r.pc \in {"resuming", "polling"}
    THEN {[StageAnswer("poll") EXCEPT !.poll = PollOf("ok", -1, FALSE), !.job = j] :
            j \in {JobOf("in_progress", ""), JobOf("completed", "answer1")}}
         \cup {[StageAnswer("poll") EXCEPT !.poll = PollOf("transport_error", -1, FALSE)]}
    ELSE {}

\* deepResearchAgent from one await to the next, on the locals r of the call
ResearchStep(r, x) ==
    CASE x.stage = "error" ->
            [FreshRequest(r.kind, r.cfg) EXCEPT
                !.pc = "aborted", !.response = Thrown("OpenAI error")]
      [] x.stage = "plan" ->
            [r EXCEPT !.plan = x.plan,
                      !.trace = Append(@, [phase |-> "plan"]),
                      !.round = 1,
                      !.pc = IF LoopContinues(1, r.cfg) THEN "searching" ELSE "synthesizing"]
      [] x.stage = "search" ->
            [r EXCEPT !.trace = Append(@, [phase |-> "search", round |-> r.round,
                                           query |-> QueryFor(r.round, r.plan)]),
                      !.pc = "extracting"]
      [] x.stage = "extract" ->
            LET t == RoundTail(r.cfg, r.plan, r.round, r.allFacts, r.seenUrls,
                               r.noNewRounds, x.facts)
            IN [r EXCEPT !.allFacts = t.allFacts,
                         !.seenUrls = t.seenUrls,
                         !.noNewRounds = t.noNewRounds,
                         !.trace = @ \o t.events,
                         !.round = t.round,
                         !.pc = t.pc]
      [] x.stage = "draft" ->
            [r EXCEPT !.allFacts = SortFacts(@),
                      !.draft = "draft",
                      !.trace = Append(@, [phase |-> "draft"]),
                      !.pc = "validating"]
      [] x.stage = "validate" ->
            [r EXCEPT !.trace = Append(@, [phase |-> "validate"]),
                      !.response = [outcome |-> "success", ok |-> TRUE,
                                    answer |-> AnswerOf(x.validation, r.draft),
                                    fact_table |-> FactTable(r.allFacts),
                                    validation |-> x.validation],
                      !.pc = "done"]

\* handleResumeResponse from one await to the next, on the locals r of the call
ResumeStep(r, x) ==
    IF r.pc = "resuming"
    THEN IF x.poll.type # "ok"
         THEN [r EXCEPT !.response = Thrown("fetch failed"), !.pc = "returned"]
         ELSE LET tr == <<[phase |-> "resume", status |-> x.job.status]>> IN
              IF x.job.status \in NonTerminal
              THEN [r EXCEPT !.result = x.job,
                             !.trace = Append(tr, [phase |-> "polling", status |-> x.job.status]),
                             !.pc = "polling"]
              ELSE [r EXCEPT !.result = x.job,
                             !.trace = tr,
                             !.response = ResumeImmediate(x.job, tr),
                             !.pc = "returned"]
    ELSE LET p == ResumePassOf(r.consecutiveErrors, r.result, r.elapsed, x.job, x.poll)
             tr == r.trace \o p.events
             after == [r EXCEPT !.consecutiveErrors = p.errors,
                                !.result = p.result,
                                !.elapsed = p.elapsed,
                                !.trace = tr]
         IN IF p.exit = "return"
            THEN [after EXCEPT
                    !.response = Reply(FALSE, p.message, "", p.result.status, "absent", TRUE, tr),
                    !.pc = "returned"]
            ELSE IF KeepsPolling(p.result, p.elapsed)
            THEN after
            ELSE IF p.result.status \in NonTerminal
            THEN [after EXCEPT
                    !.response = Reply(FALSE, "Polling timed out after 30 minutes", "",
                                       p.result.status, "absent", TRUE, tr),
                    !.pc = "returned"]
            ELSE [after EXCEPT
                    !.trace = ResumeFinish(p.result, tr).trace,
                    !.response = ResumeFinish(p.result, tr).response,
                    !.pc = "returned"]

RequestStep(r, x) == IF r.kind = "research" THEN ResearchStep(r, x) ELSE ResumeStep(r, x)

\* the requests that arrive: a research request or a resume
Arrivals ==
    {[kind |-> "research", cfg |-> c, answers |-> <<>>] :
        c \in {c \in Configs : c.maxSearchRounds = 2 /\ c.minNewFactsPerRound = 1}}
    \cup {[kind |-> "resume", cfg |-> c, answers |-> <<>>] :
        c \in {c \in DeepConfigs : c.background}}

ConcurrentInit ==
    /\ kind = "concurrent"
    /\ pc = "serving"
    /\ feed \in [1..2 -> Arrivals]
    /\ reqs = [i \in 1..2 |-> FreshRequest(feed[i].kind, feed[i].cfg)]
    /\ call = NoCall
    /\ cfg = DefaultsWith("standard")
    /\ plan = NoPlan
    /\ round = 0
    /\ allFacts = <<>>
    /\ seenUrls = {}
    /\ noNewRounds = 0
    /\ trace = <<>>
    /\ draft = ""
    /\ response = NoResponse
    /\ job = NoJob
    /\ result = NoJob
    /\ consecutiveErrors = 0
    /\ elapsed = 0
    /\ fetches = 0
    /\ lastPoll = NoPoll
    /\ calls = <<>>
    /\ retry = NoRetry

\* request i goes on from the await it was suspended at, with the provider's
\* answer x, up to its next await or its end
Serve(i, k) ==
    LET r == reqs[Slot(i)] IN
    /\ kind = "concurrent"
    /\ r.kind = k
    /\ Len(feed[i].answers) < MaxSteps
    /\ \E x \in ProviderAnswers(r) :
        /\ reqs' = [reqs EXCEPT ![Slot(i)] = RequestStep(r, x)]
        /\ feed' = [feed EXCEPT ![i].answers = Append(@, x)]
    /\ UNCHANGED <<kind, pc, cfg, call, retry, trace, response, researchVars, jobVars>>

ServeResearch == \E i \in 1..2 : Serve(i, "research")

ServeResume == \E i \in 1..2 : Serve(i, "resume")

ConcurrentNext == ServeResearch \/ ServeResume

ConcurrentSpec == ConcurrentInit /\ [][ConcurrentNext]_vars

----------------------------------------------------------------------------
\* The two poll loops side by side: the loop of runDeepResearchModel and the
\* loop of handleResumeResponse on one job and one sequence of provider answers

\* runDeepResearchModel from one status fetch of its loop to the next, on the
\* locals r of the call
SubmitLoopStep(r, x) ==
    LET p == SubmitPassOf(r.consecutiveErrors, r.result, r.elapsed, x.job, x.poll)
        tr == r.trace \o p.events
        after == [r EXCEPT !.consecutiveErrors = p.errors,
                           !.result = p.result,
                           !.elapsed = p.elapsed,
                           !.trace = tr]
    IN IF p.exit = "throw"
       THEN [after EXCEPT !.response = Thrown(p.message), !.pc = "returned"]
       ELSE IF KeepsPolling(p.result, p.elapsed)
       THEN after
       ELSE IF p.result.status \in NonTerminal
       THEN [after EXCEPT !.response = Thrown("Deep research timed out after 30 minutes"),
                          !.pc = "returned"]
       ELSE [after EXCEPT !.trace = SubmitFinish(p.result, tr).trace,
                          !.response = SubmitFinish(p.result, tr).response,
                          !.pc = "returned"]

\* the locals of a handler that has just entered its poll loop on job j
EnteredLoop(k, j) ==
    [loop |-> [FreshRequest(k, CHOOSE c \in DeepConfigs : c.background) EXCEPT
                    !.pc = "polling", !.result = j],
     fetches |-> 0]

\* what the provider can answer to a status fetch of the job
PollAnswers ==
    {[StageAnswer("poll") EXCEPT !.poll = PollOf("ok", -1, FALSE), !.job = j] : j \in Jobs}
    \cup {[StageAnswer("poll") EXCEPT !.poll = o] : o \in PollOutcomes \ {PollOf("ok", -1, FALSE)}}

LoopsInit ==
    /\ kind = "loops"
    /\ pc = "polling"
    /\ \E j \in {JobOf(st, "") : st \in NonTerminal} :
        reqs = <<EnteredLoop("deep", j), EnteredLoop("resume", j)>>
    /\ feed = <<>>
    /\ call = NoCall
    /\ cfg = DefaultsWith("deep-research")
    /\ plan = NoPlan
    /\ round = 0
    /\ allFacts = <<>>
    /\ seenUrls = {}
    /\ noNewRounds = 0
    /\ trace = <<>>
    /\ draft = ""
    /\ response = NoResponse
    /\ job = NoJob
    /\ result = NoJob
    /\ consecutiveErrors = 0
    /\ elapsed = 0
    /\ fetches = 0
    /\ lastPoll = NoPoll
    /\ calls = <<>>
    /\ retry = NoRetry

\* the provider's next answer, given to each loop that is still polling
PollBoth ==
    /\ kind = "loops"
    /\ \E i \in 1..2 : reqs[i].loop.pc = "polling"
    /\ \E x \in PollAnswers :
        /\ feed' = Append(feed, x)
        /\ reqs' = [i \in 1..2 |->
                        IF reqs[i].loop.pc # "polling" THEN reqs[i]
                        ELSE [loop |-> IF i = 1 THEN SubmitLoopStep(reqs[i].loop, x)
                                       ELSE ResumeStep(reqs[i].loop, x),
                              fetches |-> reqs[i].fetches + 1]]
    /\ UNCHANGED <<kind, pc, cfg, call, retry, trace, response, researchVars, jobVars>>

LoopsNext == PollBoth

LoopsSpec == LoopsInit /\ [][LoopsNext]_vars

----------------------------------------------------------------------------

Init == ResearchInit \/ JobInit \/ ClientInit

Next ==
    \/ Planner
    \/ WebSearch
    \/ ExtractFacts
    \/ Synthesize
    \/ Validate
    \/ PlannerFails
    \/ WebSearchFails
    \/ ExtractFactsFails
    \/ ExtractFactsRaises
    \/ SynthesizeFails
    \/ ValidateFails
    \/ Submit
    \/ SubmitFails
    \/ SubmitPoll
    \/ ResumeFetch
    \/ ResumePoll
    \/ NewResume
    \/ JobProgress
    \/ CancelJob
    \/ RetryAttempt

Spec == Init /\ [][Next]_vars

----------------------------------------------------------------------------
\* Reading the trace of a research request

Events(tr, phase) == SelectSeq(tr, LAMBDA e : e.phase = phase)

\* newFacts of every finished round, in round order
NewFactsHistory(tr) ==
    LET ex == Events(tr, "extract") IN [i \in 1..Len(ex) |-> ex[i].newFacts]

\* the number of trailing entries of h that are below the threshold
RECURSIVE TrailingBelow(_, _)
TrailingBelow(h, threshold) ==
    IF h = <<>> THEN 0
    ELSE IF h[Len(h)] < threshold
         THEN 1 + TrailingBelow(SubSeq(h, 1, Len(h) - 1), threshold)
         ELSE 0

\* the research loop has a plan and has not been unwound by an exception
InResearch == kind = "research" /\ pc \notin {"planning", "aborted"}

AfterLoop == kind = "research" /\ pc \in {"synthesizing", "validating", "done"}

----------------------------------------------------------------------------
\* C1: the research loop runs at most maxSearchRounds rounds and then goes on to
\* synthesis and validation; when no stop condition fires it runs exactly
\* maxSearchRounds rounds; every run ends (with the answer, or with a provider error).
C1_RoundsBounded ==
    InResearch =>
        /\ Len(Events(trace, "search")) <= cfg.maxSearchRounds
        /\ Len(Events(trace, "extract")) <= cfg.maxSearchRounds
        /\ pc = "searching" => Len(Events(trace, "extract")) < cfg.maxSearchRounds
        /\ AfterLoop =>
            /\ Len(Events(trace, "extract")) >= 1
            /\ Len(Events(trace, "search")) = Len(Events(trace, "extract"))
            /\ Events(trace, "stop") = <<>> =>
                    Len(Events(trace, "extract")) = cfg.maxSearchRounds

\* an upper bound on the stage calls a research request still has to make
StagesLeft ==
    CASE pc = "planning" -> 2 * cfg.maxSearchRounds + 3
      [] pc = "searching" -> 2 * (cfg.maxSearchRounds - round + 1) + 2
      [] pc = "extracting" -> 2 * (cfg.maxSearchRounds - round + 1) + 1
      [] pc = "synthesizing" -> 2
      [] pc = "validating" -> 1
      [] OTHER -> 0

C1_LoopTerminates ==
    /\ []C1_RoundsBounded
    /\ [][kind = "research" => (StagesLeft >= 0 /\ StagesLeft' >= 0 /\ StagesLeft' < StagesLeft)]_vars

\* a run without any stop event that used all its rounds and was validated
C1_Witness ==
    /\ kind = "research"
    /\ pc = "done"
    /\ cfg.maxSearchRounds = MaxRounds
    /\ Events(trace, "stop") = <<>>
    /\ Len(Events(trace, "extract")) = MaxRounds

----------------------------------------------------------------------------
\* the stop conditions as the specification lists them, for the round whose
\* extract event is tr[i]
MaxFactsHolds(tr, i) == tr[i].totalFacts >= cfg.maxFacts

CoverageHolds(tr, i) ==
    /\ tr[i].distinctSources >= (IF plan.stop_when.min_distinct_sources = 0 THEN 3
                                 ELSE plan.stop_when.min_distinct_sources)
    /\ tr[i].totalFacts >= (IF plan.stop_when.min_facts = 0 THEN 8 ELSE plan.stop_when.min_facts)

StagnationHolds(tr, i) ==
    TrailingBelow(NewFactsHistory(SubSeq(tr, 1, i)), cfg.minNewFactsPerRound)
        >= (IF plan.stop_when.no_new_facts_rounds = 0 THEN 2 ELSE plan.stop_when.no_new_facts_rounds)

FirstInOrder(tr, i) ==
    IF MaxFactsHolds(tr, i) THEN "max_facts_reached"
    ELSE IF CoverageHolds(tr, i) THEN "coverage_reached"
    ELSE IF StagnationHolds(tr, i) THEN "stagnation"
    ELSE "none"

\* C2: at the end of a round the stop conditions are tried in the order fact
\* budget, coverage, stagnation; the first that holds gives the recorded reason,
\* exactly one stop event is recorded, and no round runs after it.
C2_StopOrder ==
    InResearch =>
        /\ Len(Events(trace, "stop")) <= 1
        /\ \A i \in 1..Len(trace) :
            trace[i].phase = "extract" =>
                IF FirstInOrder(trace, i) = "none"
                THEN i < Len(trace) => trace[i + 1].phase # "stop"
                ELSE /\ i < Len(trace)
                     /\ trace[i + 1] = [phase |-> "stop", reason |-> FirstInOrder(trace, i)]
                     /\ \A j \in (i + 1)..Len(trace) : trace[j].phase \notin {"search", "extract"}
        /\ \A i \in 1..Len(trace) :
            trace[i].phase = "stop" => i > 1 /\ trace[i - 1].phase = "extract"

\* all three conditions hold at the end of the same round
C2_Witness ==
    /\ AfterLoop
    /\ \E i \in 1..Len(trace) :
        /\ trace[i].phase = "extract"
        /\ MaxFactsHolds(trace, i)
        /\ CoverageHolds(trace, i)
        /\ StagnationHolds(trace, i)
        /\ trace[i + 1] = [phase |-> "stop", reason |-> "max_facts_reached"]

----------------------------------------------------------------------------
ScenarioNewFacts == <<1, 0, 3, 0, 0>>

\* the configuration of the stagnation scenario, with no other stop condition true
StagnationScenario ==
    /\ cfg.minNewFactsPerRound = 1
    /\ plan.stop_when.no_new_facts_rounds = 2
    /\ \A i \in 1..Len(trace) :
        trace[i].phase = "extract" => ~MaxFactsHolds(trace, i) /\ ~CoverageHolds(trace, i)

IsPrefix(a, b) == Len(a) <= Len(b) /\ SubSeq(b, 1, Len(a)) = a

\* C3: after every round the stagnation counter is the number of trailing
\* consecutive rounds whose newFacts was below minNewFactsPerRound; with new-fact
\* counts 1, 0, 3, 0, 0, minNewFactsPerRound = 1 and a limit of 2 the loop stops
\* for stagnation at round 5 and at no earlier round.
C3_StagnationCounter ==
    InResearch =>
        /\ noNewRounds = TrailingBelow(NewFactsHistory(trace), cfg.minNewFactsPerRound)
        /\ (StagnationScenario /\ IsPrefix(NewFactsHistory(trace), ScenarioNewFacts)) =>
                IF Len(NewFactsHistory(trace)) = 5
                THEN /\ Events(trace, "stop") = <<[phase |-> "stop", reason |-> "stagnation"]>>
                     /\ round = 5
                ELSE Events(trace, "stop") = <<>>

C3_Witness ==
    /\ AfterLoop
    /\ StagnationScenario
    /\ NewFactsHistory(trace) = ScenarioNewFacts
    /\ Events(trace, "stop") = <<[phase |-> "stop", reason |-> "stagnation"]>>

----------------------------------------------------------------------------
\* C4: round r searches for plan.queries[(r-1) mod len(plan.queries)]; the
\* queries are reused cyclically when there are more rounds than queries.
C4_QueryRotation ==
    (InResearch /\ plan.queries_is_array /\ plan.queries # <<>>) =>
        LET se == Events(trace, "search") IN
        \A r \in 1..Len(se) :
            /\ se[r].round = r
            /\ se[r].query = plan.queries[((r - 1) % Len(plan.queries)) + 1]

\* a round beyond the number of queries, and a single-round run with three queries
C4_Witness ==
    /\ InResearch
    /\ Len(plan.queries) = 3
    /\ \E i \in 1..Len(trace) :
        /\ trace[i].phase = "search"
        /\ trace[i].round = 5
        /\ trace[i].query = "q2"

----------------------------------------------------------------------------
\* Reading a poll loop

OnJob == kind \in {"deep", "resume"}

\* this step is one iteration of a poll loop
PollStep == OnJob /\ pc = "polling" /\ fetches' = fetches + 1

FailedPolls == {"rate_limited", "http_error", "transport_error", "bad_body"}

\* the errors a poll loop ends with when it gives up on failing polls
AbortMessages ==
    {"Rate limit exceeded after 3 retries", "Polling error", "fetch failed", "Unexpected token"}

TimeoutMessages ==
    {"Deep research timed out after 30 minutes", "Polling timed out after 30 minutes"}

\* the call has ended and the caller holds its response
Returned == OnJob /\ pc = "returned"

\* C5: a poll loop aborts exactly when the consecutive-error counter reaches 3;
\* every rate-limited poll increments the counter, every successful poll resets
\* it, and an abort on a rate-limited poll is a rate-limited failure.
C5_AbortExactlyAtBound ==
    [][PollStep =>
        /\ lastPoll'.type = "rate_limited" => consecutiveErrors' = consecutiveErrors + 1
        /\ lastPoll'.type = "ok" => consecutiveErrors' = 0
        /\ (pc' = "returned" /\ response'.error \in AbortMessages)
                <=> consecutiveErrors' = maxConsecutiveErrors
        /\ (lastPoll'.type = "rate_limited" /\ consecutiveErrors' = maxConsecutiveErrors)
                => response'.error = "Rate limit exceeded after 3 retries"]_vars

\* C6: a failed poll of any kind counts against the same counter and bound: the
\* loop goes on after the first and the second consecutive failure, and the
\* third consecutive failure of any mix ends the operation.
C6_EveryFailureCounts ==
    [][(PollStep /\ lastPoll'.type \in FailedPolls) =>
        /\ consecutiveErrors' = consecutiveErrors + 1
        /\ consecutiveErrors' < maxConsecutiveErrors =>
                ~(pc' = "returned" /\ response'.error \in AbortMessages)
        /\ consecutiveErrors' = maxConsecutiveErrors =>
                (pc' = "returned" /\ response'.error \in AbortMessages)]_vars

\* C7: when the wait window expires on a job that is still queued or
\* in_progress, the call ends with a timed-out failure that carries the job id.
C7_TimeoutCarriesJobId ==
    (Returned /\ response.error \in TimeoutMessages) =>
        /\ result.status \in NonTerminal
        /\ response.response_id = "job"

\* C8: a poll loop that sees the job cancelled stops and ends as a failure that
\* reports the cancellation, the outcome resume gives when its first fetch
\* already shows cancelled.
C8_CancelledIsFailure ==
    (Returned /\ result.status = "cancelled") =>
        /\ response.outcome = "returned"
        /\ ~response.ok
        /\ response.error = "Research was cancelled"

----------------------------------------------------------------------------
\* the status the first fetch of the current resume call showed, "none" before it
FirstStatus ==
    IF trace # <<>> /\ trace[1].phase = "resume" THEN trace[1].status ELSE "none"

Terminal == Statuses \ NonTerminal

C9_FirstFetchDecides ==
    kind = "resume" =>
        /\ FirstStatus \in Terminal => (fetches = 1 /\ pc = "returned")
        /\ fetches > 1 => FirstStatus \in NonTerminal
        /\ pc = "polling" => (FirstStatus \in NonTerminal /\ result.status \in NonTerminal)

\* C9: resume on a job whose first fetch shows a final status issues that one
\* fetch and returns without polling; on a queued or in_progress job it polls,
\* and fetches again only while the last fetched status is queued or in_progress.
C9_ResumePolling ==
    /\ []C9_FirstFetchDecides
    /\ [][(kind = "resume" /\ kind' = "resume" /\ fetches >= 1 /\ fetches' = fetches + 1)
            => result.status \in NonTerminal]_vars

\* a resume that found the job queued, polled at least twice and saw it complete
C9_Witness ==
    /\ kind = "resume"
    /\ pc = "returned"
    /\ FirstStatus = "queued"
    /\ fetches >= 3
    /\ result.status = "completed"
    /\ response.ok

----------------------------------------------------------------------------
\* the previous call was a resume whose fetch showed the job completed
PreviousSawCompleted ==
    /\ calls # <<>>
    /\ calls[Len(calls)].kind = "resume"
    /\ calls[Len(calls)].first_status = "completed"

\* C10: two resumes in succession on a completed job each issue exactly one
\* status fetch and no poll, and return the same answer.
C10_ResumeTwice ==
    (kind = "resume" /\ PreviousSawCompleted) =>
        /\ calls[Len(calls)].fetches = 1
        /\ calls[Len(calls)].response.ok
        /\ fetches <= 1
        /\ pc # "polling"
        /\ pc = "returned" => fetches = 1
        /\ (pc = "returned" /\ lastPoll.type = "ok") =>
                /\ response.outcome = "returned"
                /\ response.ok
                /\ response.answer = calls[Len(calls)].response.answer
                /\ response.answer \in Answers

C10_Witness ==
    /\ kind = "resume"
    /\ PreviousSawCompleted
    /\ pc = "returned"
    /\ lastPoll.type = "ok"
    /\ response.answer = "answer2"

----------------------------------------------------------------------------
\* C11: a background operation that ends because its polls kept failing gives
\* the caller the job id, the last known job status and the trace, on the
\* submission path as on the resume path.
C11_PollingFailureCarriesState ==
    (Returned /\ consecutiveErrors = maxConsecutiveErrors) =>
        /\ response.outcome = "returned"
        /\ response.error \in AbortMessages
        /\ response.response_id = "job"
        /\ response.status \in Statuses
        /\ response.has_trace

----------------------------------------------------------------------------
\* Reading an invocation of the remote client

\* this step is one outbound call of the invocation
RetryStep == kind = "client" /\ retry'.outbound = retry.outbound + 1

\* the failures the retry policy names: 429, any 5xx, and a thrown error that
\* says network, timeout or connection reset
Transient(o) ==
    \/ o.type = "response" /\ (o.status = 429 \/ o.status \in 500..599)
    \/ o.type = "throw" /\ o.message \in {MsgNetwork, MsgTimeout, MsgReset}

Finished(r) == r.state \in {"returned", "thrown"}

C12_Bounded ==
    kind = "client" =>
        /\ retry.attempt <= retry.maxRetries
        /\ retry.outbound <= retry.maxRetries + 1
        /\ Len(retry.delays) = retry.attempt
        /\ \A i \in 1..Len(retry.delays) : retry.delays[i] = retry.baseDelayMs * 2^(i - 1)
        /\ Finished(retry) => retry.outbound = retry.attempt + 1

C13_ConfiguredBound ==
    kind = "client" => retry.outbound <= cfg.maxRetries + 1

----------------------------------------------------------------------------
ProviderErrors ==
    {"OpenAI planner error", "OpenAI web_search error", "OpenAI extractFacts error",
     "OpenAI synthesize error", "OpenAI validate error"}

\* the error a stage raises when its provider call fails
ProviderErrorOf(stage) ==
    CASE stage = "planning" -> "OpenAI planner error"
      [] stage = "searching" -> "OpenAI web_search error"
      [] stage = "extracting" -> "OpenAI extractFacts error"
      [] stage = "synthesizing" -> "OpenAI synthesize error"
      [] stage = "validating" -> "OpenAI validate error"
      [] OTHER -> "none"

\* an answer is returned only after every stage call of the run succeeded
AnswerIsBacked ==
    (kind = "research" /\ response.outcome = "success") =>
        /\ pc = "done"
        /\ Len(Events(trace, "plan")) = 1
        /\ Len(Events(trace, "search")) = Len(Events(trace, "extract"))
        /\ Len(Events(trace, "draft")) = 1
        /\ Len(Events(trace, "validate")) = 1

AbortedHasNoAnswer ==
    (kind = "research" /\ pc = "aborted") =>
        /\ response.outcome = "exception"
        /\ response = Thrown(response.error)

\* C14: when the provider call of a stage fails, the run aborts with that
\* provider error: no later stage call is issued and no answer or fact table is
\* returned.
C14_AbortOnProviderFailure ==
    /\ []AnswerIsBacked
    /\ []AbortedHasNoAnswer
    /\ [][kind = "research" => pc \notin {"aborted", "done"}]_vars
    /\ [][(kind = "research" /\ pc' = "aborted" /\ response'.error \in ProviderErrors)
            => response'.error = ProviderErrorOf(pc)]_vars

\* a run that ended on a failed search call
C14_Witness ==
    /\ kind = "research"
    /\ pc = "aborted"
    /\ response.error = "OpenAI web_search error"
    /\ cfg.maxSearchRounds = 4

----------------------------------------------------------------------------
\* C15: text of the plan, extract or validate stage that is not valid JSON, or is
\* JSON without the documented fields or with fields of the wrong shape, yields
\* the stage's default and never makes the run raise: a run raises for a provider
\* failure only.
C15_MalformedTextNeverRaises ==
    (kind = "research" /\ pc = "aborted") => response.error \in ProviderErrors

----------------------------------------------------------------------------
\* Reading the evidence set

\* the facts the caller can see: the accumulated set, and the fact table once returned
Retained ==
    IF kind # "research" THEN <<>>
    ELSE IF response.outcome = "success" THEN allFacts \o response.fact_table
    ELSE allFacts

\* trimmed, lowercased claim text
NormalizedText(f) == ToLowerCase(Trim(f.fact))

\* C16: after every round no two facts of the evidence set have the same
\* normalized claim text, and none has an empty one.
C16_NoDuplicateClaims ==
    kind = "research" =>
        /\ \A i, j \in 1..Len(allFacts) :
                i # j => NormalizedText(allFacts[i]) # NormalizedText(allFacts[j])
        /\ \A i \in 1..Len(allFacts) : NormalizedText(allFacts[i]) # <<>>

\* a round offered a fact whose text was already held (or blank) and it was dropped
C16_Witness ==
    /\ kind = "research"
    /\ Len(allFacts) >= 2
    /\ \E i \in 1..Len(allFacts) : allFacts[i].fact = <<"a">>
    /\ \E i \in 1..Len(trace) :
        /\ trace[i].phase = "extract"
        /\ trace[i].rawFactCount = 2
        /\ trace[i].filteredFactCount = 2
        /\ trace[i].newFacts = 1

\* C17: after every round and in the final fact table no retained fact has
\* source quality <= 2 together with confidence > 3.
C17_ConfidenceClamp ==
    \A i \in 1..Len(Retained) :
        ~(Retained[i].source_quality <= 2 /\ Retained[i].confidence > 3)

\* the blog fact extracted with confidence 5 is held with confidence 3, and is
\* in the fact table
C17_Witness ==
    /\ kind = "research"
    /\ pc = "done"
    /\ \E i \in 1..Len(response.fact_table) :
        /\ response.fact_table[i].fact = <<"b">>
        /\ response.fact_table[i].source_quality = 2
        /\ response.fact_table[i].confidence = 3

\* C18: every fact of the evidence set and of the final fact table has an
\* integer confidence between 1 and 5, whatever the extraction stage returned.
C18_ConfidenceInScale ==
    \A i \in 1..Len(Retained) : Retained[i].confidence \in 1..5

\* C19: every retained fact has a source URL that is a well-formed absolute URL.
C19_UrlWellFormed ==
    \A i \in 1..Len(allFacts) : kind = "research" => ParseUrl(allFacts[i].url).ok

----------------------------------------------------------------------------
\* the extraction output a round worked on, told by its length (the lengths of
\* the outputs explored differ)
RawOf(event) == CHOOSE x \in ExtractOutputs : Len(x) = event.rawFactCount

\* candidates with a claim text, a URL and a confidence of at least 2
Mergeable(raw) ==
    {i \in 1..Len(raw) :
        raw[i].fact # <<>> /\ Trim(raw[i].url) # <<>> /\ raw[i].confidence >= 2}

TextsOf(facts) == {facts[i].fact : i \in 1..Len(facts)}

C20_Held ==
    kind = "research" =>
        \A i \in 1..Len(allFacts) :
            /\ allFacts[i].fact # <<>>
            /\ allFacts[i].url # <<>>
            /\ allFacts[i].confidence >= 2

\* C20: a candidate is merged only if its claim text and URL are non-empty and
\* its confidence is at least 2; a candidate with confidence 1 or none is dropped
\* in its round and does not count as a new fact.
C20_MergeFilter ==
    /\ []C20_Held
    /\ [][(kind = "research" /\ pc = "extracting" /\ pc' # "aborted") =>
            LET event == trace'[Len(trace) + 1]
                raw == RawOf(event)
            IN /\ event.phase = "extract"
               /\ event.filteredFactCount <= Cardinality(Mergeable(raw))
               /\ event.newFacts <= Cardinality(Mergeable(raw))
               /\ event.newFacts = Len(allFacts') - Len(allFacts)
               /\ TextsOf(allFacts') \ TextsOf(allFacts) \subseteq {raw[i].fact : i \in Mergeable(raw)}
               /\ \A i \in 1..Len(raw) :
                    (raw[i].confidence <= 1 /\ raw[i].fact \notin TextsOf(allFacts))
                        => raw[i].fact \notin TextsOf(allFacts')]_vars

\* a round whose output had seven candidates, three without text, URL or
\* sufficient confidence
C20_Witness ==
    /\ kind = "research"
    /\ \E i \in 1..Len(trace) :
        /\ trace[i].phase = "extract"
        /\ trace[i].rawFactCount = 7
        /\ trace[i].filteredFactCount = 4
        /\ trace[i].newFacts = 3

----------------------------------------------------------------------------
\* Claims about the helper functions (FunctionSpec)

Applied(fn) == kind = "function" /\ pc = "applied" /\ call.fn = fn

\* host ends with the text e
EndsIn(host, e) ==
    Len(e) <= Len(host) /\ SubSeq(host, Len(host) - Len(e) + 1, Len(host)) = e

\* the rule of one entry: a '.'-entry matches a host ending with it, any other
\* entry matches the exact host or a host ending with '.' and the entry
EntryRule(host, e) ==
    IF e # <<>> /\ Head(e) = "." THEN EndsIn(host, e)
    ELSE host = e \/ EndsIn(host, <<".">> \o e)

\* C21: with a non-empty forceDomains a URL is allowed, and a fact carrying it
\* retained, only if the URL parses and its host matches one entry by the rule
\* of the entry (and every such URL is allowed when no entry is blank);
\* [".gov"] accepts https://epa.gov/report and rejects https://epa.com/report,
\* openai.com does not accept notopenai.com, an unparsable URL is rejected;
\* with an empty or absent forceDomains the rule rejects nothing.
C21_ForceDomains ==
    Applied("urlAllowedByForceDomains") =>
        LET fd == call.forceDomains
            u == ParseUrl(call.url)
            entries == {Trim(ToLowerCase(fd[k])) : k \in 1..Len(fd)}
            matches == u.ok /\ \E e \in entries : EntryRule(u.hostname, e)
        IN /\ fd = <<>> => call.allowed /\ (call.kept <=> Trim(call.url) # <<>>)
           /\ fd # <<>> => (call.allowed => matches) /\ (call.kept => matches)
           /\ (fd # <<>> /\ <<>> \notin entries /\ matches) => call.allowed
           /\ (fd = <<DGov>> /\ call.url = UrlEpaGov) => call.allowed /\ call.kept
           /\ (fd = <<DGov>> /\ call.url = UrlEpaCom) => ~call.allowed /\ ~call.kept
           /\ (fd = <<DOpenai>> /\ call.url = UrlNotOpenai) => ~call.allowed /\ ~call.kept
           /\ (fd # <<>> /\ call.url \in {NotAUrl, <<>>}) => ~call.allowed /\ ~call.kept

\* a subdomain of the second entry of the list is accepted
C21_Witness ==
    /\ Applied("urlAllowedByForceDomains")
    /\ call.forceDomains = <<DEdu, DOpenai>>
    /\ call.url = UrlApiOpenai
    /\ call.allowed
    /\ call.kept

\* C22: domainQualityScore returns an integer in 1..5 for every URL, the empty
\* or missing one included, and the value is a function of the URL alone;
\* https://nist.gov/x scores 5, https://example.medium.com/post 2,
\* https://x.com/user/status/1 1, and a URL matching no signal 2.
C22_ScoreTotal ==
    Applied("domainQualityScore") =>
        /\ call.number \in 1..5
        /\ call.number = domainQualityScore(call.url)
        /\ call.url = UrlNist => call.number = 5
        /\ call.url = UrlMedium => call.number = 2
        /\ call.url = UrlSocial => call.number = 1
        /\ call.url \in {<<>>, NotAUrl, UrlPlain, UrlEpaCom, UrlOpenai} => call.number = 2

\* the social URL of the claim has been scored
C22_Witness ==
    /\ Applied("domainQualityScore")
    /\ call.url = UrlSocial
    /\ call.number = 1

\* C27: whatever is given for an option (nothing, null, a non-number, an
\* infinity, a number out of range or with a fraction), the effective value is
\* an integer of the option's range (maxSearchRounds 1..10, maxFacts 5..50,
\* minNewFactsPerRound 0..10, maxRetries 0..5); an absent option takes its
\* default (4, 18, 2, 3) and a whole number of the range is taken as given.
C27_OptionsClamped ==
    Applied("clampInt") =>
        LET lo == [maxSearchRounds |-> 1, maxFacts |-> 5,
                   minNewFactsPerRound |-> 0, maxRetries |-> 0]
            hi == [maxSearchRounds |-> 10, maxFacts |-> 50,
                   minNewFactsPerRound |-> 10, maxRetries |-> 5]
            dflt == [maxSearchRounds |-> 4, maxFacts |-> 18,
                     minNewFactsPerRound |-> 2, maxRetries |-> 3]
            o == call.option
            v == call.given
        IN /\ call.number \in lo[o]..hi[o]
           /\ v.kind \in {"absent", "null"} => call.number = dflt[o]
           /\ (/\ v.kind = "number"
               /\ v.tenths % 10 = 0
               /\ (v.tenths \div 10) \in lo[o]..hi[o]) => call.number = v.tenths \div 10

\* a negative fraction given for maxFacts is raised to the lower bound
C27_Witness ==
    /\ Applied("clampInt")
    /\ call.option = "maxFacts"
    /\ call.given = Num(-15)
    /\ call.number = 5

----------------------------------------------------------------------------
\* Claims about the ranking, the answer and the order of the stages (Spec)

\* the facts of a list that have the given two keys, in the order of the list
WithKeys(facts, q, c) ==
    SelectSeq(facts, LAMBDA f : f.source_quality = q /\ f.confidence = c)

\* descending source quality, ties by descending confidence
Ordered(facts) ==
    \A i, j \in 1..Len(facts) :
        i < j => \/ facts[i].source_quality > facts[j].source_quality
                 \/ /\ facts[i].source_quality = facts[j].source_quality
                    /\ facts[i].confidence >= facts[j].confidence

\* sorted is facts, reordered by the two keys and by nothing else
StablyOrdered(facts, sorted) ==
    /\ Len(sorted) = Len(facts)
    /\ Ordered(sorted)
    /\ \A k \in 1..Len(facts) :
        LET q == facts[k].source_quality
            c == facts[k].confidence
        IN WithKeys(sorted, q, c) = WithKeys(facts, q, c)

Key(q, c) == [fact |-> <<"t">>, url |-> <<>>, confidence |-> c, source_quality |-> q]

SynthesizeStep == kind = "research" /\ pc = "synthesizing" /\ pc' = "validating"

ValidateStep == kind = "research" /\ pc = "validating" /\ pc' = "done"

\* C23: the list given to the synthesizer is the accumulated list ordered by
\* descending source quality, ties by descending confidence, facts equal on
\* both keys in their accumulation order ({5,3},{5,4},{2,5} become
\* {5,4},{5,3},{2,5}); the fact table lists that same list, its i-th entry
\* carrying the id F<i>.
C23_RankedAndNumbered ==
    [][/\ SynthesizeStep => StablyOrdered(allFacts, allFacts')
       /\ ValidateStep =>
            /\ Ordered(allFacts)
            /\ Len(response'.fact_table) = Len(allFacts)
            /\ \A i \in 1..Len(allFacts) :
                /\ response'.fact_table[i].id = i
                /\ response'.fact_table[i].fact = allFacts[i].fact
                /\ response'.fact_table[i].url = allFacts[i].url
                /\ response'.fact_table[i].confidence = allFacts[i].confidence
                /\ response'.fact_table[i].source_quality = allFacts[i].source_quality
       /\ SortFacts(<<Key(5, 3), Key(5, 4), Key(2, 5)>>)
            = <<Key(5, 4), Key(5, 3), Key(2, 5)>>]_vars

\* a finished run whose table begins with the fact of the .edu page, found
\* after the blog's, and keeps two facts equal on both keys in the order in
\* which they were accumulated
C23_Witness ==
    /\ kind = "research"
    /\ pc = "done"
    /\ Len(response.fact_table) >= 4
    /\ response.fact_table[1].source_quality = 5
    /\ \E i, j \in 1..Len(response.fact_table) :
        /\ i < j
        /\ response.fact_table[i].fact = fB.fact
        /\ response.fact_table[j].fact = fBadUrl.fact
        /\ response.fact_table[i].source_quality = response.fact_table[j].source_quality
        /\ response.fact_table[i].confidence = response.fact_table[j].confidence

Answered_Research == kind = "research" /\ pc = "done"

\* C24: the answer returned is the validator's revised answer whenever the
\* validation is not ok, and the draft whenever it is, for every validation
\* result.
C24_RevisedWhenUnsupported ==
    Answered_Research =>
        /\ response.validation.ok => response.answer = draft
        /\ ~response.validation.ok => response.answer = response.validation.revised_answer

\* a finished run of one round on a plan of one query, whose extraction
\* returned the single fact of https://x.edu/page with confidence 4
OneFactScenario ==
    /\ Answered_Research
    /\ Len(plan.queries) = 1
    /\ Len(Events(trace, "search")) = 1
    /\ Len(Events(trace, "extract")) = 1
    /\ Events(trace, "extract")[1].rawFactCount = 1
    /\ fA.url = UrlEdu /\ fA.confidence = 4

\* C25: end to end, a plan of one query and an extraction returning one fact of
\* confidence 4 from https://x.edu/page give a fact table of exactly one entry,
\* F1 with source quality 5 and confidence 4, and a validation that is ok
\* returns the draft as the answer, unmodified.
C25_EndToEnd ==
    OneFactScenario =>
        /\ response.fact_table =
             <<[id |-> 1, fact |-> fA.fact, url |-> UrlEdu,
                confidence |-> 4, source_quality |-> 5]>>
        /\ response.validation.ok => response.answer = draft /\ draft \in Drafts

\* the scenario, validated as supported
C25_Witness ==
    /\ OneFactScenario
    /\ response.validation.ok
    /\ response.answer = "draft"
    /\ Len(response.fact_table) = 1

\* C26: the accumulated evidence set, and so the fact table, never holds more
\* than cfg.maxFacts facts.
C26_MaxFactsBound ==
    kind = "research" =>
        /\ Len(allFacts) <= cfg.maxFacts
        /\ pc = "done" => Len(response.fact_table) <= cfg.maxFacts

\* the stage calls made so far, in order (the stop events are not calls)
StageCalls == SelectSeq(trace, LAMBDA e : e.phase # "stop")

\* C28: the stage calls of a run follow one another in the order of the state
\* machine: one plan call, then per round one search call followed by one
\* extract call of the same round, then one synthesize call, then one validate
\* call; nothing is searched or extracted once the synthesis has started, and
\* a run that has finished has synthesized once and validated once.
C28_StagesInSequence ==
    (kind = "research" /\ pc # "aborted") =>
        LET T == StageCalls
            n == Len(T)
            loopLen == Cardinality({k \in 1..n : T[k].phase \in {"search", "extract"}})
            tailLen == IF pc = "validating" THEN 1 ELSE IF pc = "done" THEN 2 ELSE 0
        IN /\ pc = "planning" => trace = <<>>
           /\ pc # "planning" =>
                /\ n = 1 + loopLen + tailLen
                /\ T[1].phase = "plan"
                /\ \A k \in 2..(1 + loopLen) :
                    /\ T[k].phase = IF k % 2 = 0 THEN "search" ELSE "extract"
                    /\ T[k].round = k \div 2
                /\ (loopLen % 2 = 1) <=> (pc = "extracting")
                /\ tailLen >= 1 => T[2 + loopLen].phase = "draft"
                /\ tailLen = 2 => T[n].phase = "validate"
                /\ Len(Events(trace, "draft")) = (IF tailLen >= 1 THEN 1 ELSE 0)
                /\ Len(Events(trace, "validate")) = (IF tailLen = 2 THEN 1 ELSE 0)

\* a finished run of three rounds
C28_Witness ==
    /\ Answered_Research
    /\ Len(Events(trace, "search")) = 3
    /\ Len(Events(trace, "extract")) = 3
    /\ Len(Events(trace, "draft")) = 1
    /\ Len(Events(trace, "validate")) = 1

\* a round that ran to its end
RoundStep == kind = "research" /\ pc = "extracting" /\ pc' # "aborted"

\* C30: a round never removes, replaces or reorders the facts accepted before
\* it: the evidence set before the round is a prefix of the set after it, so
\* the count does not decrease and the newFacts the round reports, which is
\* the growth of the set, is never negative.
C30_AcceptedFactsStay ==
    [][RoundStep =>
        LET event == Events(trace', "extract")[round]
        IN /\ IsPrefix(allFacts, allFacts')
           /\ Len(allFacts') >= Len(allFacts)
           /\ event.newFacts = Len(allFacts') - Len(allFacts)
           /\ event.newFacts >= 0
           /\ event.totalFacts = Len(allFacts')]_vars

\* after a later round offered the text of an accepted fact again, from
\* another page, the fact of the first page is still the one held
C30_Witness ==
    /\ kind = "research"
    /\ Len(Events(trace, "extract")) >= 2
    /\ LET last == Events(trace, "extract")[Len(Events(trace, "extract"))]
       IN last.filteredFactCount = 2 /\ last.newFacts = 1
    /\ \E i \in 1..Len(allFacts) :
        /\ allFacts[i].fact = fA.fact
        /\ allFacts[i].url = UrlEdu
        /\ \E j \in (i + 1)..Len(allFacts) : allFacts[j].fact = fE.fact

----------------------------------------------------------------------------
\* Claim about requests served concurrently (ConcurrentSpec)

\* the request run alone from its call on the provider answers it was given
RECURSIVE RunAlone(_, _)
RunAlone(r, answers) ==
    IF answers = <<>> THEN r
    ELSE RunAlone(RequestStep(r, Head(answers)), Tail(answers))

----------------------------------------------------------------------------
\* Claims settled last

\* the tier whose signal the lower-cased URL text u carries first, in the
\* order 5, 4, 3, 2 (blog), 1 (social), and 2 when it carries none
FirstTier(u) ==
    LET has(signals) == \E k \in 1..Len(signals) : Includes(u, signals[k])
    IN IF EndsIn(u, DotGov) \/ Includes(u, DotGovSlash)
          \/ EndsIn(u, DotEdu) \/ Includes(u, DotEduSlash) THEN 5
       ELSE IF has(docSignals) \/ has(researchSignals) THEN 4
       ELSE IF has(okSignals) THEN 3
       ELSE IF has(lowSignals) THEN 2
       ELSE IF has(veryLow) THEN 1
       ELSE 2

\* the URL parses and its host is in .gov or .edu
OnGovOrEdu(url) ==
    LET u == ParseUrl(url)
    IN u.ok /\ (EndsIn(u.hostname, DotGov) \/ EndsIn(u.hostname, DotEdu))

\* the first tier whose signal the URL carries gives the score
C31_TierOrder == Applied("domainQualityScore") => call.number = FirstTier(ToLowerCase(call.url))

\* C31: the tiers are tried in the order 5, 4, 3, 2, 1, default 2 and the
\* first that matches wins; a URL on a .gov or .edu domain scores 5 even when
\* it carries the signal of a lower tier, and a URL with a blog and a social
\* signal scores 2.
C31_FirstTierWins ==
    /\ C31_TierOrder
    /\ Applied("domainQualityScore") =>
        /\ OnGovOrEdu(call.url) => call.number = 5
        /\ call.url = UrlBlogSocial => call.number = 2

\* a URL of a .gov host, followed at once by its query, scored as social media
C31_GovScoredLow ==
    /\ Applied("domainQualityScore")
    /\ call.url = UrlGovQuery
    /\ OnGovOrEdu(call.url)
    /\ call.number = 1

\* C32: the job object a poll loop holds changes only when a status fetch
\* succeeds: a poll that is rate limited, fails in transport, is answered with
\* an error or cannot be parsed leaves it as it was, a successful one replaces
\* it by the job as fetched; a status reported when the loop gives up, on the
\* error bound or on the wait window, is the one fetched last.
C32_StatusFromSuccessfulPolls ==
    [][/\ PollStep =>
            /\ lastPoll'.type \in FailedPolls => result' = result
            /\ lastPoll'.type = "ok" => result' = job
            /\ (/\ pc' = "returned"
                /\ response'.error \in AbortMessages \cup TimeoutMessages
                /\ response'.status # "absent") =>
                    /\ response'.status = result'.status
                    /\ lastPoll'.type \in FailedPolls => response'.status = result.status
       /\ (OnJob /\ result' # result) =>
            \/ pc = "submitting"
            \/ pc = "returned"
            \/ pc \in {"resuming", "polling"} /\ lastPoll'.type = "ok"]_vars

\* a resume that found the job queued, saw it in_progress on a poll, and gave
\* up after three failed polls reporting in_progress
C32_Witness ==
    /\ kind = "resume"
    /\ pc = "returned"
    /\ FirstStatus = "queued"
    /\ consecutiveErrors = maxConsecutiveErrors
    /\ lastPoll.type \in FailedPolls
    /\ result.status = "in_progress"
    /\ response.error \in AbortMessages
    /\ response.status = "in_progress"

\* the outcome class of a call that has ended
OutcomeClass(r) ==
    LET resp == r.response IN
    IF resp.outcome = "returned" /\ resp.ok THEN "completed"
    ELSE IF resp.error = "Deep research failed" THEN "failed"
    ELSE IF resp.error = "Research was cancelled" THEN "cancelled"
    ELSE IF resp.error = "Rate limit exceeded after 3 retries" THEN "rate limited"
    ELSE IF resp.error \in TimeoutMessages THEN "timed out"
    ELSE IF r.consecutiveErrors = maxConsecutiveErrors THEN "error bound reached"
    ELSE "other"

\* C33: on the same job and the same sequence of provider answers the loop
\* entered after submission and the loop entered by resume issue the same
\* status fetches, hold the same consecutive-error count at every step and end
\* in the same outcome class.
C33_SameStateMachine ==
    kind = "loops" =>
        LET a == reqs[1].loop
            b == reqs[2].loop
        IN /\ reqs[1].fetches = reqs[2].fetches
           /\ a.consecutiveErrors = b.consecutiveErrors
           /\ a.pc = b.pc
           /\ a.pc = "returned" => OutcomeClass(a) = OutcomeClass(b)

\* both loops fetched the job cancelled: the submission path answers as for a
\* completed job, the resume path with a failure
C33_CancelledDiffers ==
    /\ kind = "loops"
    /\ Len(feed) = 1
    /\ feed[1].job.status = "cancelled"
    /\ reqs[1].loop.pc = "returned" /\ reqs[2].loop.pc = "returned"
    /\ OutcomeClass(reqs[1].loop) = "completed"
    /\ OutcomeClass(reqs[2].loop) = "other"

\* after rate-limited polls without a retry-after header the resume loop has
\* run out of its window while the submission loop still polls
C33_WindowDiffers ==
    /\ kind = "loops"
    /\ \A k \in 1..Len(feed) : feed[k].poll.type \in {"ok", "rate_limited"}
    /\ \A k \in 1..Len(feed) : feed[k].poll.type = "ok" => feed[k].job.status \in NonTerminal
    /\ reqs[1].loop.pc = "polling"
    /\ reqs[2].loop.pc = "returned"
    /\ OutcomeClass(reqs[2].loop) = "timed out"

\* C34: a request served by a deep-research model reports success only when
\* the status of the job observed last is completed.
C34_SuccessOnlyWhenCompleted ==
    (kind = "deep" /\ pc = "returned" /\ response.outcome = "returned" /\ response.ok) =>
        result.status = "completed"

\* the status fetches a poll loop can still make before its window expires
PollsLeft(p, t) ==
    IF p = "polling" /\ t < MaxWait THEN (MaxWait - t + PollInterval - 1) \div PollInterval ELSE 0

\* the status fetches the current invocation has made in its poll loop
PollsMade == IF kind = "resume" /\ fetches >= 1 THEN fetches - 1 ELSE fetches

C35_WindowBoundsPolls ==
    OnJob =>
        /\ pc = "polling" => (elapsed < MaxWait /\ result.status \in NonTerminal)
        /\ PollsMade + PollsLeft(pc, elapsed) <= MaxPolls

SourcesOf(facts) == {facts[i].url : i \in 1..Len(facts)}

\* C36: the distinct-source count the coverage condition reads is the number
\* of distinct URLs of the facts in the evidence set: the URL of a fact that a
\* filter or the deduplication rejected is not counted, and the count never
\* exceeds the number of facts.
C36_SourcesAreThoseOfTheFacts ==
    kind = "research" =>
        /\ seenUrls = SourcesOf(allFacts)
        /\ Cardinality(seenUrls) <= Len(allFacts)
        /\ \A k \in 1..Len(Events(trace, "extract")) :
            Events(trace, "extract")[k].distinctSources <= Events(trace, "extract")[k].totalFacts
        /\ (pc \in {"searching", "synthesizing"} /\ Events(trace, "extract") # <<>>) =>
            LET last == Events(trace, "extract")[Len(Events(trace, "extract"))]
            IN /\ last.distinctSources = Cardinality(SourcesOf(allFacts))
               /\ last.totalFacts = Len(allFacts)

\* after two rounds the encyclopedia page, offered by a fact that repeated an
\* accepted text and by a fact of too low a confidence, is not a source
C36_Witness ==
    /\ kind = "research"
    /\ pc \in {"searching", "synthesizing"}
    /\ Len(Events(trace, "extract")) = 2
    /\ Events(trace, "extract")[1].rawFactCount = 1
    /\ Events(trace, "extract")[2].rawFactCount = 2
    /\ Events(trace, "extract")[2].filteredFactCount = 2
    /\ Events(trace, "extract")[2].newFacts = 1
    /\ UrlWiki \notin seenUrls
    /\ seenUrls = {UrlEdu}
    /\ Len(allFacts) = 2

====
